---- MODULE Spec2Model ----
(***************************************************************************)
(* A model of octomind's session orchestration core and MCP tool           *)
(* federation core.                                                        *)
(*                                                                         *)
(* Five specifications share the module:                                   *)
(*   SpecSession    - the interactive runner, the parallel tool fan-out    *)
(*                    and the tool-result processor                        *)
(*   SpecRunner     - the runner's turn loop with the layer pipeline,      *)
(*                    /done and context truncation                         *)
(*   SpecSupervisor - one supervised MCP server: startup, health monitor,  *)
(*                    dispatcher health gate, process supervisor           *)
(*   SpecToolMap    - the tool map build and the dispatcher's routing      *)
(*   SpecLayerDispatch - the tool map build and the routing of the tool    *)
(*                    calls of a layer                                     *)
(* Each specification moves its own variables and leaves the others at     *)
(* their initial values.                                                   *)
(***************************************************************************)
EXTENDS Naturals, Integers, Sequences, FiniteSets, TLC

VARIABLES
    \* ---- session runner (runner.rs, tool_execution.rs, tool_result_processor.rs)
    messages,               \* chat_session.session.messages
    pc,                     \* position of the runner inside its main loop
    ctrl_c_pressed,         \* the process-wide Ctrl+C flag
    tool_process_cancelled, \* the per-turn flag handed to process_response
    operation_cancelled,    \* the cancellation flag of the loop iteration
    current_tool_calls,     \* ids of the tool calls being executed, in order
    tasks,                  \* tool id -> state of its spawned task
    tool_results,           \* what execute_tools_parallel returned
    next_tool_id,           \* provider-assigned ids are fresh naturals
    turns,                  \* user turns started
    rounds,                 \* provider responses carrying tool calls so far
    user_message_index,     \* OperationContext.user_message_index
    fanout,                 \* history: how the last fan-out ended
    enable_layers,          \* current_config.get_enable_layers(role)
    layers_write,           \* some layer has output_mode other than none
    first_message_processed,\* the runner's flag of the same name
    has_tools,              \* !config.mcp.servers.is_empty()
    enable_auto_truncation, \* config.enable_auto_truncation
    supports_caching,       \* the model family supports prompt caching
    current_non_cached_tokens, \* Session.current_non_cached_tokens
    current_total_tokens,   \* Session.current_total_tokens
    hist,                   \* history: how the current turn went
    cancel_monitors,        \* the spawned cancel-monitor tasks that are still polling
    \* ---- one supervised server (health_monitor.rs, server.rs, process supervisor)
    kind,                   \* "stdin" | "http_local" | "http_remote"
    phase,                  \* "boot" before initialize_servers_for_role, then "up"
    alive,                  \* the child process is running
    health,                 \* ServerRestartInfo.health_status
    restart_count,          \* ServerRestartInfo.restart_count
    last_restart_time,      \* ServerRestartInfo.last_restart_time (None = -1)
    now,                    \* wall clock, seconds
    failed_since,           \* history: when health last became Failed (None = -1)
    function_cache,         \* what FUNCTION_CACHE holds for the server: "none" | "real" | "fallback"
    spawn_log,              \* history: times of the most recent process spawns
    last_op,                \* history: what the last step did
    monitor,                \* HEALTH_MONITOR_RUNNING and the spawned monitor tasks
    \* ---- tool map (tool_map.rs, mcp/mod.rs)
    servers,                \* config.mcp.servers, in configuration order
    tool_to_server,         \* ToolMapState.tool_to_server
    initialized,            \* ToolMapState.initialized
    routed,                 \* history: last dispatcher routing decision
    registry,               \* the global server registry of the configuration file
    role_mcp,               \* the role's mcp section: server_refs, allowed_tools
    \* ---- dispatcher output gate (mcp/mod.rs)
    init_calls,             \* the calls of initialize_tool_map in progress
    large_in,               \* a tool result on its way through handle_large_response
    large_out,              \* what handle_large_response returned for it
    extracted,              \* a tool result and the text extract_mcp_content gave for it
    \* ---- one layer's run (layers/types/generic.rs)
    layer_run               \* the layer's own message list and its tool loop

sessionVars ==
    <<messages, pc, ctrl_c_pressed, tool_process_cancelled, operation_cancelled,
      current_tool_calls,
      tasks, tool_results, next_tool_id, turns, rounds, user_message_index, fanout,
      enable_layers, layers_write, first_message_processed, has_tools,
      enable_auto_truncation, supports_caching, current_non_cached_tokens,
      current_total_tokens, hist, cancel_monitors>>

\* The layer configuration and the runner's first-message flag.
layerVars == <<enable_layers, layers_write, first_message_processed>>

\* The rest of the session's configuration.
configVars == <<has_tools, enable_auto_truncation, supports_caching>>

\* The token counters of the cache tracking.
cacheVars == <<current_non_cached_tokens, current_total_tokens>>

supervisorVars ==
    <<kind, phase, alive, health, restart_count, last_restart_time, now,
      failed_since, function_cache, spawn_log, last_op, monitor>>

\* The dispatcher's output gate.
dispatchVars == <<large_in, large_out, extracted>>

\* The tool loop of one layer.
layerRunVars == <<layer_run>>

toolMapVars ==
    <<servers, tool_to_server, initialized, routed, registry, role_mcp, init_calls,
      dispatchVars, layerRunVars>>

\* The configuration the merged configuration of a role is made from.
roleVars == <<registry, role_mcp>>

vars == <<sessionVars, supervisorVars, toolMapVars>>

(***************************************************************************)
(* Bounds of the model.                                                    *)
(***************************************************************************)
MaxTurns == 2        \* user turns per behaviour
MaxCalls == 2        \* tool calls in one assistant message
MaxRounds == 2       \* assistant messages with tool calls per behaviour
TimeStep == 20       \* seconds the clock advances in one step
MaxTime == 400       \* the clock stops here
MaxServers == 2      \* servers in config.mcp.servers
MaxTokens == 3       \* estimated tokens of a tool result, and the threshold
MaxCallers == 2      \* tasks calling initialize_tool_map
MaxText == 2         \* characters of a tool result's text

(***************************************************************************)
(* Program constants.                                                      *)
(***************************************************************************)
MaxRestartAttempts == 3      \* restart_info.restart_count >= 3
RestartCooldownSecs == 30    \* time_since_restart < Duration::from_secs(30)
FailureCooldownSecs == 300   \* time_since_last_restart > Duration::from_secs(300)
None == -1                   \* Option::None of a timestamp

(***************************************************************************)
(*                       SESSION: message log                              *)
(***************************************************************************)

\* Message: role, tool_calls (Option<Value>: has_tool_calls + the ids of the array),
\* tool_call_id (0 when absent), the content of a user message: the number of
\* the turn whose input it carries (0 for other messages) and whether it is the
\* layer-processed form of that input, and the cache marker.
Msg(role, has, ids, tcid) ==
    [role |-> role, has_tool_calls |-> has, tool_calls |-> ids, tool_call_id |-> tcid,
     input |-> 0, layered |-> FALSE, cached |-> FALSE]

SystemMessage == Msg("system", FALSE, <<>>, 0)
\* add_user_message(input): input is the turn's text, as typed or as the layers
\* returned it.
UserMessage(input, layered) ==
    [Msg("user", FALSE, <<>>, 0) EXCEPT !.input = input, !.layered = layered]
ToolMessage(id) == Msg("tool", FALSE, <<>>, id)
\* An assistant message: tool_calls is Some(array) exactly when calls were emitted.
AssistantMessage(ids) == Msg("assistant", ids # <<>>, ids, 0)

SeqToSet(s) == {s[i] : i \in DOMAIN s}

\* Session::messages after add_tool_message for every result, in result order.
RECURSIVE AddToolMessages(_, _)
AddToolMessages(msgs, results) ==
    IF results = <<>> THEN msgs
    ELSE AddToolMessages(Append(msgs, ToolMessage(Head(results).tool_id)), Tail(results))

\* Vec::truncate(len): keeps the first len elements.
Truncate(msgs, len) == IF len < Len(msgs) THEN SubSeq(msgs, 1, len) ELSE msgs

\* tool_calls_array.retain(keep) followed by the None / Some(array) update.
RetainToolCalls(m, keepIds) ==
    LET kept == SelectSeq(m.tool_calls, LAMBDA id : id \in keepIds)
    IN  [m EXCEPT !.has_tool_calls = (kept # <<>>), !.tool_calls = kept]

\* handle_declined_output_internal: drop the declined tool_use from the LAST message
\* when that is an assistant message with tool_calls.
handle_declined_output_internal(tool_id, msgs) ==
    IF msgs # <<>> /\ msgs[Len(msgs)].role = "assistant" /\ msgs[Len(msgs)].has_tool_calls
    THEN [msgs EXCEPT ![Len(msgs)] =
              RetainToolCalls(@, SeqToSet(@.tool_calls) \ {tool_id})]
    ELSE msgs

\* Index of the most recent assistant message with tool_calls (0 when none).
LastAssistantWithToolCalls(msgs) ==
    LET S == {i \in DOMAIN msgs : msgs[i].role = "assistant" /\ msgs[i].has_tool_calls}
    IN  IF S = {} THEN 0 ELSE CHOOSE i \in S : \A j \in S : j <= i

\* fix_assistant_message_tool_calls: narrow the most recent assistant message's
\* tool_calls to the ids that produced a result.
fix_assistant_message_tool_calls(original_tool_calls, results, msgs) ==
    LET completed == {results[k].tool_id : k \in DOMAIN results}
        i == LastAssistantWithToolCalls(msgs)
    IN  IF i = 0 THEN msgs
        ELSE LET kept == SelectSeq(msgs[i].tool_calls, LAMBDA id : id \in completed)
             IN  IF kept = <<>>
                 THEN [msgs EXCEPT ![i] = RetainToolCalls(@, {})]
                 ELSE IF Len(kept) < Len(original_tool_calls)
                      THEN [msgs EXCEPT ![i] = RetainToolCalls(@, completed)]
                      ELSE msgs

(***************************************************************************)
(*                   SESSION: parallel tool fan-out                        *)
(***************************************************************************)

\* What one spawned task ends with:
\*   "ok"          execute_tool_call returned Ok(result)
\*   "ok_declined" the user answered N to the large-output prompt; handle_large_response
\*                 returns Ok(McpToolResult::error(..)), an ordinary Ok for the fan-out
\*   "ok_rpc_error" the external server answered tools/call with a JSON-RPC error
\*                 object; execute_tool_call wraps it in McpToolResult::success
\*   "err"         execute_tool_call returned Err(e) (non-2xx status, connection
\*                 error, malformed JSON, unknown tool, cancelled tool, ...)
\*   "join_err"    the task itself failed (JoinError)
ExecuteToolCallOutcomes == {"ok", "ok_declined", "ok_rpc_error", "err"}
TaskOutcomes == ExecuteToolCallOutcomes \cup {"join_err"}

\* The isError member of a result's JSON value: McpToolResult::success writes
\* false, McpToolResult::error writes true, and the error values built by the
\* fan-out ({"error": "Tool execution failed: ..", ..}) have no such member.
IsError(k) ==
    CASE k \in {"success", "rpc_error"} -> "false"
      [] k = "declined_error" -> "true"
      [] OTHER -> "absent"

\* A result carrying a fresh id instead of the call's.
ResultFreshId(id, k) == [tool_id |-> 0, kind |-> k, is_error |-> IsError(k)]

Result(id, k) == [tool_id |-> id, kind |-> k, is_error |-> IsError(k)]

\* The same pass, with a declined output treated like the decline marker: the
\* tool_use is removed and no result is pushed.
RECURSIVE CollectResultsDeclineRemoves(_, _, _, _)
CollectResultsDeclineRemoves(ids, outcome, msgs, results) ==
    IF ids = <<>> THEN [messages |-> msgs, results |-> results]
    ELSE LET id == Head(ids)
             o == outcome[id]
         IN  CASE o = "ok" ->
                    CollectResultsDeclineRemoves(Tail(ids), outcome, msgs,
                                                 Append(results, Result(id, "success")))
               [] o = "ok_declined" ->
                    CollectResultsDeclineRemoves(Tail(ids), outcome,
                        handle_declined_output_internal(id, msgs), results)
               [] o = "ok_rpc_error" ->
                    CollectResultsDeclineRemoves(Tail(ids), outcome, msgs,
                                                 Append(results, Result(id, "rpc_error")))
               [] o = "err" ->
                    CollectResultsDeclineRemoves(Tail(ids), outcome, msgs,
                                                 Append(results, Result(id, "error")))
               [] OTHER ->
                    CollectResultsDeclineRemoves(Tail(ids), outcome, msgs,
                                                 Append(results, Result(id, "task_failure")))

\* The join_all branch of execute_tools_parallel_internal: one pass over the tasks in
\* dispatch order. An error whose text carries LARGE_OUTPUT_DECLINED_BY_USER removes
\* the tool_use from the log and yields no result; every other outcome pushes
\* exactly one result carrying the call's tool_id.
RECURSIVE CollectResults(_, _, _, _)
CollectResults(ids, outcome, msgs, results) ==
    IF ids = <<>> THEN [messages |-> msgs, results |-> results]
    ELSE LET id == Head(ids)
             o == outcome[id]
         IN  CASE o = "ok" ->
                    CollectResults(Tail(ids), outcome, msgs,
                                   Append(results, Result(id, "success")))
               [] o = "ok_declined" ->
                    CollectResults(Tail(ids), outcome, msgs,
                                   Append(results, Result(id, "declined_error")))
               [] o = "ok_rpc_error" ->
                    CollectResults(Tail(ids), outcome, msgs,
                                   Append(results, Result(id, "rpc_error")))
               [] o = "err_declined_marker" ->
                    CollectResults(Tail(ids), outcome,
                                   handle_declined_output_internal(id, msgs), results)
               [] o = "err" ->
                    CollectResults(Tail(ids), outcome, msgs,
                                   Append(results, Result(id, "error")))
               [] OTHER ->
                    CollectResults(Tail(ids), outcome, msgs,
                                   Append(results, Result(id, "task_failure")))

(***************************************************************************)
(*                 SESSION: cache markers and token tracking               *)
(***************************************************************************)

MaxCacheMarkers == 4        \* the budget of active cache markers
CacheTokensThreshold == 1   \* config.cache_tokens_threshold

CachedIndices(msgs) == {i \in DOMAIN msgs : msgs[i].cached}
CachedCount(msgs) == Cardinality(CachedIndices(msgs))

\* CacheManager::add_automatic_cache_markers: nothing without caching support;
\* otherwise the system message carries a marker.
add_automatic_cache_markers(msgs, caching) ==
    IF caching
    THEN [i \in DOMAIN msgs |->
             IF msgs[i].role = "system" THEN [msgs[i] EXCEPT !.cached = TRUE] ELSE msgs[i]]
    ELSE msgs

\* On overflow of the budget the oldest marker that is not on a system message
\* is removed.
EvictOldest(msgs) ==
    LET c == {i \in CachedIndices(msgs) : msgs[i].role # "system"}
    IN  IF CachedCount(msgs) > MaxCacheMarkers /\ c # {}
        THEN [msgs EXCEPT ![CHOOSE i \in c : \A j \in c : i <= j].cached = FALSE]
        ELSE msgs

\* A checkpoint that never evicts.
MarkLastNoEviction(msgs) ==
    IF msgs = <<>> THEN msgs ELSE [msgs EXCEPT ![Len(msgs)].cached = TRUE]

\* A checkpoint on the most recent message, within the budget.
MarkLast(msgs) ==
    IF msgs = <<>> THEN msgs ELSE EvictOldest([msgs EXCEPT ![Len(msgs)].cached = TRUE])

\* CacheManager::check_and_apply_auto_cache_threshold: with caching support and
\* more non-cached tokens than the threshold since the last checkpoint, the most
\* recent message is marked and the count starts again.
AutoCacheDue(caching, non_cached) == caching /\ non_cached > CacheTokensThreshold

\* A token counter after usage u was added (the model caps it at MaxTokens).
AddTokens(t, u) == IF t + u > MaxTokens THEN MaxTokens ELSE t + u

\* CacheManager::update_token_tracking after a provider exchange.
update_token_tracking ==
    IF supports_caching
    THEN \E u \in {1, MaxTokens} :
            /\ current_non_cached_tokens' = AddTokens(current_non_cached_tokens, u)
            /\ current_total_tokens' = AddTokens(current_total_tokens, u)
    ELSE UNCHANGED cacheVars

\* The flag a path's loading animation polls: /done hands the animation a clone
\* of the operation's flag, the other paths create a flag of their own.
AnimationFlag(path) ==
    IF path = "done" THEN "operation_cancelled" ELSE "animation_cancel"

\* Stopping the animation of a path stores true into the flag it polls; the
\* value is the operation's flag afterwards.
StopAnimation(path, cancelled) ==
    IF AnimationFlag(path) = "operation_cancelled" THEN TRUE ELSE cancelled

\* History of the last animation teardown: the path, and the operation's flag
\* before and after it.
NoTeardown == [path |-> "none", before |-> FALSE, after |-> FALSE]
Teardown(path, cancelled) ==
    [path |-> path, before |-> cancelled, after |-> StopAnimation(path, cancelled)]

\* The history of a turn before anything happened in it.
\* No follow-up response has been looked at.
NoFollowUp == [calls |-> 0, finish_reason |-> "-", continued |-> FALSE]

NoHist ==
    [turn_end |-> "none", dropped |-> 0, kept |-> <<>>, api_turn |-> 0,
     layer_runs |-> 0, layer_runs_since |-> 0, cancel_pc |-> "none", at_call |-> <<>>,
     summary_calls |-> 0, done_len |-> 0, done_tokens |-> 0, evicted |-> FALSE,
     teardown |-> NoTeardown, sigints |-> 0, pending |-> 0, exit_code |-> 0,
     follow_up |-> NoFollowUp]

NoFanout == [asst |-> 0, cancelled |-> FALSE, done |-> {}, declined |-> {}, returned |-> {}]

DoneIds == {id \in DOMAIN tasks : tasks[id] # "running"}

\* The handler never forces the exit.
ForceExitNever(pressed) == FALSE

\* The ctrlc handler's first check: the flag of an earlier Ctrl+C is still set.
ForceExit(pressed) == pressed

\* A history counter of Ctrl+C signals, counted up to two.
CountSignal(n) == IF n < 2 THEN n + 1 ELSE 2

\* The cancel-monitor tasks that are polling: those that end when they find the
\* Ctrl+C flag set (_cancel_monitor of the provider call, _tool_cancel_monitor of
\* the response) and those that end when the animation of a follow-up call is
\* stopped (_cancel_monitor of process_tool_results).
NoCancelMonitors == [on_ctrl_c |-> 0, on_animation |-> 0]

\* tokio::spawn of a monitor that polls the Ctrl+C flag.
SpawnCtrlCMonitor(m) == [m EXCEPT !.on_ctrl_c = @ + 1]

\* The Ctrl+C flag is set: every monitor polling it copies it and ends.
CtrlCMonitorsEnd(m) == [m EXCEPT !.on_ctrl_c = 0]

\* tokio::spawn of the monitor of process_tool_results.
SpawnAnimationMonitor(m) == [m EXCEPT !.on_animation = @ + 1]

\* animation_cancel.store(true): the monitor of process_tool_results ends.
AnimationMonitorEnds(m) == [m EXCEPT !.on_animation = 0]

\* Ctrl+C: the ctrlc handler. A second Ctrl+C while the flag is still set exits 130,
\* and the session's state goes with the process. The history counts the
\* signals since the last accepted input (sigints) and since the flag was last
\* clear (pending).
CtrlC ==
    /\ pc # "exited"
    /\ IF ForceExit(ctrl_c_pressed)
       THEN /\ pc' = "exited"
            /\ messages' = <<>>
            /\ tool_process_cancelled' = FALSE
            /\ current_tool_calls' = <<>>
            /\ tasks' = <<>>
            /\ tool_results' = <<>>
            /\ next_tool_id' = 0
            /\ turns' = 0
            /\ rounds' = 0
            /\ user_message_index' = 0
            /\ fanout' = NoFanout
            /\ first_message_processed' = FALSE
            /\ hist' = [NoHist EXCEPT !.sigints = CountSignal(hist.sigints),
                                      !.pending = CountSignal(hist.pending),
                                      !.exit_code = 130]
            /\ current_non_cached_tokens' = 0
            /\ current_total_tokens' = 0
            /\ operation_cancelled' = FALSE
            /\ cancel_monitors' = NoCancelMonitors
            /\ UNCHANGED ctrl_c_pressed
       ELSE /\ ctrl_c_pressed' = TRUE
            /\ cancel_monitors' = CtrlCMonitorsEnd(cancel_monitors)
            /\ hist' = [hist EXCEPT !.sigints = CountSignal(@),
                                    !.pending = CountSignal(@)]
            /\ UNCHANGED <<messages, pc, tool_process_cancelled, current_tool_calls,
                           tasks, tool_results, next_tool_id, turns, rounds,
                           user_message_index, fanout, first_message_processed,
                           cacheVars, operation_cancelled>>
    /\ UNCHANGED <<enable_layers, layers_write, configVars, supervisorVars, toolMapVars>>

\* _tool_cancel_monitor: copies the Ctrl+C flag into the turn's flag.
ToolCancelMonitor ==
    /\ pc \in {"executing_tools", "tool_results", "before_follow_up", "follow_up_api"}
    /\ ctrl_c_pressed /\ ~tool_process_cancelled
    /\ tool_process_cancelled' = TRUE
    /\ hist' = [hist EXCEPT !.cancel_pc = pc]
    /\ UNCHANGED <<messages, pc, ctrl_c_pressed, current_tool_calls, tasks,
                   tool_results, next_tool_id, turns, rounds, user_message_index, fanout>>
    /\ UNCHANGED <<layerVars, configVars, operation_cancelled, cacheVars, cancel_monitors, supervisorVars, toolMapVars>>

\* _cancel_monitor, spawned before the provider call of the turn: copies the
\* Ctrl+C flag into the iteration's flag.
CancelMonitor ==
    /\ pc = "calling_api"
    /\ ctrl_c_pressed /\ ~operation_cancelled
    /\ operation_cancelled' = TRUE
    /\ UNCHANGED <<messages, pc, ctrl_c_pressed, tool_process_cancelled,
                   current_tool_calls, tasks, tool_results, next_tool_id, turns, rounds,
                   user_message_index, fanout>>
    /\ UNCHANGED <<layerVars, hist, configVars, cacheVars, cancel_monitors, supervisorVars, toolMapVars>>

\* The cleanup drops the user message of the interrupted operation in every state.
SmartCleanupDropsUser(state, msgs, user_idx) ==
    IF user_idx < Len(msgs) /\ msgs[user_idx + 1].role = "user"
    THEN Truncate(msgs, user_idx)
    ELSE msgs

\* The match on the processing state in the cancellation cleanup. No assistant
\* index is recorded before a response is processed, so the CallingAPI arm keeps
\* the log as it is.
SmartCleanup(state, msgs, user_idx) ==
    CASE state = "processing_layers" -> Truncate(msgs, user_idx)
      [] OTHER -> msgs

\* Top of the main loop with the flag set: the state was just set to Idle, so the
\* cleanup match takes the Idle arm (no log mutation); the flag is reset.
LoopTopCancel ==
    /\ pc = "idle" /\ ctrl_c_pressed
    /\ ctrl_c_pressed' = FALSE
    /\ messages' = SmartCleanup("idle", messages, user_message_index)
    /\ hist' = [hist EXCEPT !.pending = 0]
    /\ UNCHANGED <<pc, tool_process_cancelled, current_tool_calls, tasks,
                   tool_results, next_tool_id, turns, rounds, user_message_index, fanout>>
    /\ UNCHANGED <<layerVars, configVars, operation_cancelled, cacheVars, cancel_monitors, supervisorVars, toolMapVars>>

\* check_and_truncate_context dropping the k oldest messages after the system
\* message. The system message and the last user message are preserved, and a
\* tool-turn group is never split.
CanDrop(msgs, k) == k = 0 \/ (k + 2 <= Len(msgs) /\ msgs[k + 2].role # "tool")

TruncateContext(msgs, k) ==
    IF k = 0 THEN msgs ELSE <<msgs[1]>> \o SubSeq(msgs, k + 2, Len(msgs))

\* The layers run on every turn, whatever the flag.
NeedsLayersAlways(enabled, processed) == enabled

\* get_enable_layers(role) && !first_message_processed
NeedsLayers(enabled, processed) == enabled /\ ~processed

\* The standard flow of a turn up to the provider call: the user message is
\* appended at user_message_index, the context is truncated if needed, and the
\* call is issued with its cancel monitor spawned. h is the history record to
\* start from.
AppendAndCall(msgs, input, layered, h) ==
    LET appended == Append(msgs, UserMessage(input, layered))
    IN  \E k \in (IF enable_auto_truncation THEN 0..(Len(appended) - 2) ELSE {0}) :
           /\ CanDrop(appended, k)
           /\ user_message_index' = Len(msgs)
           /\ messages' = TruncateContext(appended, k)
           /\ pc' = "calling_api"
           /\ cancel_monitors' = SpawnCtrlCMonitor(cancel_monitors)
           /\ hist' = [h EXCEPT !.turn_end = "none", !.dropped = k,
                                !.kept = TruncateContext(msgs, k), !.api_turn = input,
                                !.at_call = TruncateContext(appended, k)]

\* A user turn starts. With layers enabled and the first message not yet processed
\* the input goes to the layer pipeline; otherwise the standard flow runs.
ReadUserInput ==
    /\ pc = "idle" /\ ~ctrl_c_pressed /\ turns < MaxTurns
    /\ turns' = turns + 1
    /\ IF NeedsLayers(enable_layers, first_message_processed)
       THEN /\ pc' = "processing_layers"
            /\ hist' = [hist EXCEPT !.turn_end = "none", !.dropped = 0, !.kept = <<>>,
                                    !.layer_runs = @ + 1, !.cancel_pc = "none",
                                    !.sigints = 0]
            /\ UNCHANGED <<messages, user_message_index, cancel_monitors>>
       ELSE AppendAndCall(messages, turns + 1, FALSE,
                          [hist EXCEPT !.cancel_pc = "none", !.sigints = 0])
    /\ operation_cancelled' = FALSE
    /\ UNCHANGED <<ctrl_c_pressed, tool_process_cancelled, current_tool_calls, tasks,
                   tool_results, next_tool_id, rounds, fanout>>
    /\ UNCHANGED <<layerVars, configVars, cacheVars, supervisorVars, toolMapVars>>

\* The layers' output as written to the session by a layer whose output_mode is
\* append or replace.
LayerOutput(msgs, write) ==
    IF write THEN Append(msgs, AssistantMessage(<<>>)) ELSE msgs

\* process_layered_response leaves the original input out of the session.
LayeredOkNoUser(msgs, write, input) == LayerOutput(msgs, write)

\* process_layered_response on success: the layers have run, then the original
\* input is added to the session as a user message.
LayeredOk(msgs, write, input) ==
    Append(LayerOutput(msgs, write), UserMessage(input, FALSE))

\* process_layered_response returns to the runner. On success the layers' output
\* has been written to the session when some layer's output_mode says so, and the
\* original input has been added as a user message; the runner then compares the
\* log length with the one before the layers ran. Ctrl+C during the layers is seen
\* only by the runner's check after they return.
LayersReturn ==
    /\ pc = "processing_layers"
    /\ \/ LET after == LayeredOk(messages, layers_write, turns)
              stopped == [hist EXCEPT
                             !.teardown = Teardown("layers", operation_cancelled)]
              done == [stopped EXCEPT !.layer_runs_since = @ + 1]
          IN  IF ctrl_c_pressed
              THEN /\ messages' = after
                   /\ pc' = "idle"
                   /\ hist' = [stopped EXCEPT !.turn_end = "layers_cancelled"]
                   /\ UNCHANGED <<first_message_processed, user_message_index,
                                  cancel_monitors>>
              ELSE IF Len(after) > Len(messages)
                   THEN /\ messages' = after
                        /\ first_message_processed' = TRUE
                        /\ pc' = "idle"
                        /\ hist' = [done EXCEPT !.turn_end = "layers_done"]
                        /\ UNCHANGED <<user_message_index, cancel_monitors>>
                   ELSE /\ first_message_processed' = TRUE
                        /\ AppendAndCall(after, turns, TRUE, done)
       \/ IF ctrl_c_pressed
          THEN /\ pc' = "idle"
               /\ hist' = [hist EXCEPT !.turn_end = "layers_cancelled",
                               !.teardown = Teardown("layers", operation_cancelled)]
               /\ UNCHANGED <<messages, first_message_processed, user_message_index,
                              cancel_monitors>>
          ELSE /\ first_message_processed' = TRUE
               /\ AppendAndCall(messages, turns, FALSE,
                                [hist EXCEPT !.layer_runs_since = @ + 1,
                                    !.teardown = Teardown("layers", operation_cancelled)])
    /\ UNCHANGED <<ctrl_c_pressed, tool_process_cancelled, current_tool_calls, tasks,
                   tool_results, next_tool_id, turns, rounds, fanout>>
    /\ UNCHANGED <<enable_layers, layers_write, configVars, operation_cancelled, cacheVars, supervisorVars, toolMapVars>>

\* The synthetic user message asking for the summary.
SummaryPrompt == UserMessage(0, FALSE)

\* The log keeps everything and the summary is appended.
ReducedLogKeepsAll(msgs) == Append(msgs, [AssistantMessage(<<>>) EXCEPT !.cached = TRUE])

\* perform_context_reduction, Ok(response): the log is cleared, the first system
\* message is restored, and the summary is added as an assistant message marked
\* for caching.
ReducedLog(msgs) ==
    LET sys == SelectSeq(msgs, LAMBDA m : m.role = "system")
    IN  (IF sys = <<>> THEN <<>> ELSE <<Head(sys)>>)
            \o <<[AssistantMessage(<<>>) EXCEPT !.cached = TRUE]>>

\* The /done command: the first-message flag is reset and the context reducer
\* starts. Without a message besides system messages it returns at once;
\* otherwise the summarization prompt is added and the provider is called.
DoneCommand ==
    /\ pc = "idle" /\ ~ctrl_c_pressed
    /\ first_message_processed' = FALSE
    /\ IF \A i \in DOMAIN messages : messages[i].role = "system"
       THEN /\ hist' = [hist EXCEPT !.layer_runs_since = 0, !.turn_end = "done_nothing",
                                    !.summary_calls = 0, !.sigints = 0]
            /\ UNCHANGED <<messages, pc>>
       ELSE /\ messages' = Append(messages, SummaryPrompt)
            /\ pc' = "summarizing"
            /\ hist' = [hist EXCEPT !.layer_runs_since = 0, !.turn_end = "none",
                                    !.summary_calls = 1, !.done_len = Len(messages),
                                    !.done_tokens = current_total_tokens,
                                    !.sigints = 0]
    /\ operation_cancelled' = FALSE
    /\ UNCHANGED <<ctrl_c_pressed, tool_process_cancelled, current_tool_calls, tasks,
                   tool_results, next_tool_id, turns, rounds, user_message_index, fanout>>
    /\ UNCHANGED <<enable_layers, layers_write, configVars, cacheVars, cancel_monitors, supervisorVars, toolMapVars>>

\* The summarization call returns and the animation is stopped. Ok: the log
\* becomes the system message and the summary, and the token counters start
\* again. Err: the summarization prompt is popped.
SummaryReturns ==
    /\ pc = "summarizing"
    /\ operation_cancelled' = StopAnimation("done", operation_cancelled)
    /\ \/ /\ messages' = ReducedLog(messages)
          /\ current_non_cached_tokens' = 0
          /\ current_total_tokens' = 0
          /\ hist' = [hist EXCEPT !.turn_end = "done_command",
                                  !.teardown = Teardown("done", operation_cancelled)]
       \/ /\ messages' = IF messages[Len(messages)] = SummaryPrompt
                          THEN Truncate(messages, Len(messages) - 1)
                          ELSE messages
          /\ hist' = [hist EXCEPT !.turn_end = "done_failed",
                                  !.teardown = Teardown("done", operation_cancelled)]
          /\ UNCHANGED cacheVars
    /\ pc' = "idle"
    /\ UNCHANGED <<ctrl_c_pressed, tool_process_cancelled, current_tool_calls, tasks,
                   tool_results, next_tool_id, turns, rounds, user_message_index, fanout>>
    /\ UNCHANGED <<layerVars, configVars, cancel_monitors, supervisorVars, toolMapVars>>

\* process_response / the loop of process_tool_results' caller: append the assistant
\* message with its tool_calls preserved and, when there are calls, start the fan-out.
StartRound(msgs, n) ==
    LET ids == [k \in 1..n |-> next_tool_id + k]
    IN  /\ messages' = Append(msgs, AssistantMessage(ids))
        /\ next_tool_id' = next_tool_id + n
        /\ IF n = 0
           THEN /\ pc' = "idle"
                /\ UNCHANGED <<current_tool_calls, tasks, rounds, fanout>>
           ELSE /\ pc' = "executing_tools"
                /\ current_tool_calls' = ids
                /\ tasks' = [id \in SeqToSet(ids) |-> "running"]
                /\ rounds' = rounds + 1
                /\ fanout' = NoFanout
        /\ tool_results' = <<>>

CallsAllowed == IF has_tools /\ rounds < MaxRounds THEN 0..MaxCalls ELSE {0}

\* The provider call of the turn returns.
ApiReturns ==
    /\ pc = "calling_api"
    /\ \/ \* Ctrl+C during the call: skip the response
          /\ ctrl_c_pressed
          /\ pc' = "idle"
          /\ hist' = [hist EXCEPT !.turn_end = "api_cancelled",
                          !.teardown = Teardown("provider_call", operation_cancelled)]
          /\ UNCHANGED <<messages, tool_process_cancelled, current_tool_calls, tasks,
                         tool_results, next_tool_id, rounds, fanout, cacheVars,
                         cancel_monitors>>
       \/ \* Ok(response): a fresh tool_process_cancelled flag with its monitor,
          \* then process_response
          /\ ~ctrl_c_pressed
          /\ tool_process_cancelled' = FALSE
          /\ cancel_monitors' = SpawnCtrlCMonitor(cancel_monitors)
          /\ hist' = [hist EXCEPT !.turn_end = "answered",
                          !.teardown = Teardown("provider_call", operation_cancelled)]
          /\ update_token_tracking
          /\ \E n \in CallsAllowed : StartRound(messages, n)
       \/ \* Err(e): remove the user message added for the failed call
          /\ ~ctrl_c_pressed
          /\ messages' = Truncate(messages, user_message_index)
          /\ pc' = "idle"
          /\ hist' = [hist EXCEPT !.turn_end = "api_error",
                          !.teardown = Teardown("provider_call", operation_cancelled)]
          /\ UNCHANGED <<tool_process_cancelled, current_tool_calls, tasks,
                         tool_results, next_tool_id, rounds, fanout, cacheVars,
                         cancel_monitors>>
    /\ UNCHANGED <<ctrl_c_pressed, turns, user_message_index>>
    /\ UNCHANGED <<layerVars, configVars, operation_cancelled, supervisorVars, toolMapVars>>

\* One spawned tool task finishes with one of the given outcomes.
TaskEnds(outcomes) ==
    /\ pc = "executing_tools"
    /\ \E id \in DOMAIN tasks, o \in outcomes :
          /\ tasks[id] = "running"
          /\ tasks' = [tasks EXCEPT ![id] = o]
    /\ UNCHANGED <<messages, pc, ctrl_c_pressed, tool_process_cancelled,
                   current_tool_calls, tool_results, next_tool_id, turns, rounds,
                   user_message_index, fanout>>
    /\ UNCHANGED <<layerVars, hist, configVars, operation_cancelled, cacheVars, cancel_monitors, supervisorVars, toolMapVars>>

TaskCompletes == TaskEnds(TaskOutcomes)

\* One spawned tool task finishes with a result. The cache markers do not depend
\* on how a tool call ends.
TaskSucceeds == TaskEnds({"ok"})

\* execute_tools_parallel, join_all branch of the select: every task finished.
\* The results are collected and the assistant message is repaired.
FanoutJoin ==
    /\ pc = "executing_tools"
    /\ DoneIds = DOMAIN tasks
    /\ LET c == CollectResults(current_tool_calls, tasks, messages, <<>>)
       IN  /\ tool_results' = c.results
           /\ messages' = fix_assistant_message_tool_calls(current_tool_calls,
                                                          c.results, c.messages)
           /\ fanout' = [asst |-> LastAssistantWithToolCalls(messages),
                         cancelled |-> FALSE,
                         done |-> DoneIds,
                         declined |-> {id \in DOMAIN tasks : tasks[id] = "ok_declined"},
                         returned |-> {c.results[k].tool_id : k \in DOMAIN c.results}]
    /\ pc' = "tool_results"
    /\ UNCHANGED <<ctrl_c_pressed, tool_process_cancelled, current_tool_calls, tasks,
                   next_tool_id, turns, rounds, user_message_index>>
    /\ UNCHANGED <<layerVars, hist, configVars, operation_cancelled, cacheVars, cancel_monitors, supervisorVars, toolMapVars>>

\* execute_tools_parallel, cancellation branch of the select: the poll loop saw the
\* flag. The fan-out returns Ok((Vec::new(), ..)) whatever the tasks have done, and
\* the assistant message is repaired against that empty list.
FanoutCancelled ==
    /\ pc = "executing_tools"
    /\ tool_process_cancelled
    /\ tool_results' = <<>>
    /\ messages' = fix_assistant_message_tool_calls(current_tool_calls, <<>>, messages)
    /\ fanout' = [asst |-> LastAssistantWithToolCalls(messages),
                  cancelled |-> TRUE,
                  done |-> DoneIds,
                  declined |-> {id \in DOMAIN tasks : tasks[id] = "ok_declined"},
                  returned |-> {}]
    /\ pc' = "tool_results"
    /\ UNCHANGED <<ctrl_c_pressed, tool_process_cancelled, current_tool_calls, tasks,
                   next_tool_id, turns, rounds, user_message_index>>
    /\ UNCHANGED <<layerVars, hist, configVars, operation_cancelled, cacheVars, cancel_monitors, supervisorVars, toolMapVars>>

(***************************************************************************)
(*                 SESSION: tool-result processing                         *)
(***************************************************************************)

\* process_tool_results up to the follow-up call: the entry check of the flag, then
\* one tool message per result, then the cache threshold check. The results are
\* consumed here and the tasks of the fan-out are gone.
ProcessToolResults ==
    /\ pc = "tool_results"
    /\ IF tool_process_cancelled
       THEN \* return Ok(None) before any tool message is added
            /\ pc' = "idle"
            /\ UNCHANGED <<messages, cacheVars>>
            /\ UNCHANGED <<hist, cancel_monitors>>
       ELSE /\ cancel_monitors' = SpawnAnimationMonitor(cancel_monitors)
            /\ IF AutoCacheDue(supports_caching, current_non_cached_tokens)
               THEN LET added == AddToolMessages(messages, tool_results)
                    IN  /\ messages' = MarkLast(added)
                        /\ current_non_cached_tokens' = 0
                        /\ hist' = [hist EXCEPT !.evicted =
                                        @ \/ CachedCount(MarkLastNoEviction(added))
                                                 > MaxCacheMarkers]
                        /\ UNCHANGED current_total_tokens
               ELSE /\ messages' = AddToolMessages(messages, tool_results)
                    /\ UNCHANGED <<cacheVars, hist>>
            /\ pc' = "before_follow_up"
    /\ current_tool_calls' = <<>>
    /\ tasks' = <<>>
    /\ tool_results' = <<>>
    /\ fanout' = NoFanout
    /\ UNCHANGED <<ctrl_c_pressed, tool_process_cancelled, next_tool_id, turns, rounds,
                   user_message_index>>
    /\ UNCHANGED <<layerVars, configVars, operation_cancelled, supervisorVars, toolMapVars>>

\* The follow-up call is issued whatever the flag says.
FollowUpAllowedAlways(cancelled) == TRUE

\* process_tool_results: the follow-up call is skipped once the turn is cancelled.
FollowUpAllowed(cancelled) == ~cancelled

\* process_tool_results: the check of the flag right before the follow-up call.
BeforeFollowUp ==
    /\ pc = "before_follow_up"
    /\ pc' = IF FollowUpAllowed(tool_process_cancelled) THEN "follow_up_api" ELSE "idle"
    /\ cancel_monitors' = IF FollowUpAllowed(tool_process_cancelled)
                          THEN cancel_monitors
                          ELSE AnimationMonitorEnds(cancel_monitors)
    /\ UNCHANGED <<messages, ctrl_c_pressed, tool_process_cancelled, current_tool_calls,
                   tasks, tool_results, next_tool_id, turns, rounds, user_message_index,
                   fanout>>
    /\ UNCHANGED <<layerVars, hist, configVars, operation_cancelled, cacheVars, supervisorVars, toolMapVars>>

\* The finish_reason of a provider response: the five values the code names, one
\* it does not know, and none.
FinishReasons == {"tool_calls", "tool_use", "stop", "length", "end_turn", "unknown", "none"}

\* The conversation continues on the two tool reasons only.
check_should_continue_tool_reasons_only(finish_reason, has_more_tools) ==
    finish_reason \in {"tool_calls", "tool_use"}

\* check_should_continue
check_should_continue(finish_reason, has_more_tools) ==
    CASE finish_reason \in {"tool_calls", "tool_use"} -> TRUE
      [] finish_reason \in {"stop", "length", "end_turn"} -> FALSE
      [] finish_reason = "none" -> has_more_tools
      [] OTHER -> TRUE

\* process_tool_results, Ok(response): the number of tool calls handed back to the
\* caller, tool_calls being None when check_should_continue says the conversation
\* ends.
ReturnedCalls(calls, finish_reason) ==
    IF check_should_continue(finish_reason, calls > 0) THEN calls ELSE 0

\* The follow-up provider call returns: Err(e) ends the turn; Ok(response) hands
\* (content, exchange, tool_calls) back, and the caller starts another round when
\* tool_calls are handed back. With observed, the history keeps the response's
\* tool_calls and finish_reason and whether a round was started.
FollowUpEnds(observed) ==
    /\ pc = "follow_up_api"
    /\ cancel_monitors' = AnimationMonitorEnds(cancel_monitors)
    /\ \/ /\ pc' = "idle"
          /\ hist' = [hist EXCEPT !.teardown = Teardown("follow_up", operation_cancelled)]
          /\ UNCHANGED <<messages, current_tool_calls, tasks, tool_results,
                         next_tool_id, rounds, fanout, cacheVars>>
       \/ /\ update_token_tracking
          /\ \E calls \in CallsAllowed, finish_reason \in FinishReasons :
                LET n == ReturnedCalls(calls, finish_reason)
                IN  /\ StartRound(messages, n)
                    /\ hist' = [hist EXCEPT
                           !.teardown = Teardown("follow_up", operation_cancelled),
                           !.follow_up = IF observed
                                         THEN [calls |-> calls,
                                               finish_reason |-> finish_reason,
                                               continued |-> n > 0]
                                         ELSE @]
    /\ UNCHANGED <<ctrl_c_pressed, tool_process_cancelled, turns, user_message_index>>
    /\ UNCHANGED <<layerVars, configVars, operation_cancelled, supervisorVars, toolMapVars>>

FollowUpReturns == FollowUpEnds(FALSE)

FollowUpObserved == FollowUpEnds(TRUE)

InitSessionVars ==
    /\ messages = add_automatic_cache_markers(<<SystemMessage, AssistantMessage(<<>>)>>,
                                              supports_caching)
    /\ current_non_cached_tokens = 0
    /\ current_total_tokens = 0
    /\ pc = "idle"
    /\ ctrl_c_pressed = FALSE
    /\ tool_process_cancelled = FALSE
    /\ operation_cancelled = FALSE
    /\ current_tool_calls = <<>>
    /\ tasks = <<>>
    /\ tool_results = <<>>
    /\ next_tool_id = 0
    /\ turns = 0
    /\ rounds = 0
    /\ user_message_index = 0
    /\ fanout = NoFanout
    /\ first_message_processed = FALSE
    /\ hist = NoHist
    /\ cancel_monitors = NoCancelMonitors

\* A session with MCP servers, without layers and without auto truncation.
ToolsConfig ==
    /\ has_tools = TRUE
    /\ enable_layers = FALSE
    /\ layers_write = FALSE
    /\ enable_auto_truncation = FALSE
    /\ supports_caching = FALSE

\* A session without MCP servers, with any layer and truncation configuration.
RunnerConfig ==
    /\ has_tools = FALSE
    /\ enable_layers \in BOOLEAN
    /\ layers_write \in (IF enable_layers THEN BOOLEAN ELSE {FALSE})
    /\ enable_auto_truncation \in BOOLEAN
    /\ supports_caching \in BOOLEAN

NextSession ==
    \/ CtrlC
    \/ ToolCancelMonitor
    \/ LoopTopCancel
    \/ ReadUserInput
    \/ ApiReturns
    \/ TaskCompletes
    \/ FanoutJoin
    \/ FanoutCancelled
    \/ ProcessToolResults
    \/ BeforeFollowUp
    \/ FollowUpReturns

(***************************************************************************)
(*                 SUPERVISOR: one supervised MCP server                   *)
(***************************************************************************)

ServerKinds == {"stdin", "http_local", "http_remote"}
LocalKinds == {"stdin", "http_local"}

\* What a step did (returned: the function list a request for the server's
\* functions got, "-" for every other step): the health recorded before it, the health its probe found
\* ("-" when it does not probe), the seconds since the last restart before it,
\* the seconds it had been Failed, whether it asked the supervisor for a running child, whether a child was
\* spawned, whether the dispatcher refused the call.
Op(name, probed, attempted, spawned, refused) ==
    [name |-> name, pre_health |-> health, probed |-> probed,
     elapsed |-> IF last_restart_time = None THEN None ELSE now - last_restart_time,
     failed_for |-> IF failed_since = None THEN None ELSE now - failed_since,
     attempted |-> attempted, spawned |-> spawned, refused |-> refused,
     returned |-> "-"]

NoOp == [name |-> "none", pre_health |-> "Dead", probed |-> "-", elapsed |-> None,
         failed_for |-> None,
         attempted |-> FALSE, spawned |-> FALSE, refused |-> FALSE, returned |-> "-"]

\* The log keeps the four most recent spawn times.
LogSpawn(log, t) ==
    LET l == Append(log, t)
    IN  IF Len(l) > 4 THEN SubSeq(l, Len(l) - 3, Len(l)) ELSE l

\* The same without the restart budget.
StartupAllowedNoBudget ==
    /\ (last_restart_time = None \/ now - last_restart_time >= RestartCooldownSecs)
    /\ health # "Failed"

\* Process supervisor: a child may be started only within the restart budget, outside
\* the restart cooldown and while the server is not Failed.
StartupAllowed ==
    /\ restart_count < MaxRestartAttempts
    /\ (last_restart_time = None \/ now - last_restart_time >= RestartCooldownSecs)
    /\ health # "Failed"

\* process::ensure_server_running, called with the health the caller left recorded:
\* a running child is returned as is; otherwise a new child is spawned when startup
\* is allowed, and the attempt fails (RestartBlocked) when it is not.
EnsureServerRunning(recorded) ==
    IF alive
    THEN /\ health' = recorded
         /\ UNCHANGED <<alive, restart_count, last_restart_time, spawn_log>>
    ELSE IF StartupAllowed
         THEN /\ alive' = TRUE
              /\ health' = "Running"
              /\ restart_count' = restart_count + 1
              /\ last_restart_time' = now
              /\ spawn_log' = LogSpawn(spawn_log, now)
         ELSE /\ health' = recorded
              /\ UNCHANGED <<alive, restart_count, last_restart_time, spawn_log>>

WillSpawn == ~alive /\ StartupAllowed

\* Failed bookkeeping of the history variable.
TrackFailed == failed_since' = IF health' = "Failed"
                               THEN (IF health = "Failed" THEN failed_since ELSE now)
                               ELSE None

\* The function cache is cleared when the server is started again.
TrackCache == function_cache' = IF ~alive /\ alive' THEN "none" ELSE function_cache

\* check_server_health_and_restart_if_dead, the probe: process liveness for stdin and
\* local HTTP servers, an HTTP tools/list round trip for remote ones.
ProbeHealth(k, running, reachable) ==
    IF k \in LocalKinds
    THEN (IF running THEN "Running" ELSE "Dead")
    ELSE (IF reachable THEN "Running" ELSE "Dead")

InCooldown(last, t) == last # None /\ t - last < RestartCooldownSecs

\* The same without the threshold: no restart is ever found too recent.
TickDecisionNoCooldown(hs, count, last, t) ==
    CASE hs = "Dead" -> IF count >= MaxRestartAttempts THEN "mark_failed" ELSE "restart"
      [] hs = "Failed" ->
            IF last # None /\ t - last > FailureCooldownSecs
            THEN "reset_failure" ELSE "none"
      [] OTHER -> "none"

\* The same, except that a server already recorded Failed is not marked again.
TickDecisionNoRemark(hs, count, last, t) ==
    CASE hs = "Dead" ->
            IF count >= MaxRestartAttempts
            THEN (IF health = "Failed" THEN "none" ELSE "mark_failed")
            ELSE IF InCooldown(last, t) THEN "cooldown_skip"
            ELSE "restart"
      [] hs = "Failed" ->
            IF last # None /\ t - last > FailureCooldownSecs
            THEN "reset_failure" ELSE "none"
      [] OTHER -> "none"

\* check_server_health_and_restart_if_dead, the match on the probed health_status
\* with the restart_info snapshot (restart_count, last_restart_time).
TickDecision(hs, count, last, t) ==
    CASE hs = "Dead" ->
            IF count >= MaxRestartAttempts THEN "mark_failed"
            ELSE IF InCooldown(last, t) THEN "cooldown_skip"
            ELSE "restart"
      [] hs = "Failed" ->
            IF last # None /\ t - last > FailureCooldownSecs
            THEN "reset_failure" ELSE "none"
      [] OTHER -> "none"

\* Only a local HTTP server is restarted.
CanRestartHttpOnly(k) == k = "http_local"

\* restart_dead_server: only stdin and local HTTP servers can be restarted.
CanRestart(k) == k \in LocalKinds

\* HEALTH_MONITOR_RUNNING, the monitor tasks waiting for the tick of their
\* interval, the monitor tasks inside a pass over the servers, and whether
\* cleanup_servers has returned.
NoMonitor == [running |-> FALSE, sleeping |-> 0, in_pass |-> 0, cleaned |-> FALSE]

\* Monitor tasks the model lets exist at once.
MaxMonitorTasks == 2

\* Monitor tasks that have been spawned and have not left their loop.
MonitorTasks == monitor.sleeping + monitor.in_pass

\* start_health_monitor: the compare_exchange(false, true) keeps a second call from
\* spawning while the flag is set; otherwise a task is spawned (the server of the
\* model is an external one, so the list of servers to monitor is not empty).
start_health_monitor(m) ==
    IF m.running THEN m
    ELSE [m EXCEPT !.running = TRUE, !.sleeping = @ + 1]

\* stop_health_monitor: compare_exchange(true, false); the task is left to notice.
stop_health_monitor(m) == [m EXCEPT !.running = FALSE]

\* check_server_health_and_restart_if_dead for the server.
HealthPass ==
    /\ phase = "up"
    /\ \E reachable \in BOOLEAN :
          LET hs == ProbeHealth(kind, alive, reachable)
              d == TickDecision(hs, restart_count, last_restart_time, now)
              attempt == d = "restart" /\ CanRestart(kind)
          IN  /\ CASE d = "mark_failed" ->
                        /\ health' = "Failed"
                        /\ UNCHANGED <<alive, restart_count, last_restart_time, spawn_log>>
                   [] d = "reset_failure" ->
                        /\ health' = "Dead"
                        /\ UNCHANGED <<alive, restart_count, last_restart_time, spawn_log>>
                   [] attempt -> EnsureServerRunning(hs)
                   [] OTHER ->
                        /\ health' = hs
                        /\ UNCHANGED <<alive, restart_count, last_restart_time, spawn_log>>
              /\ last_op' = Op("tick", hs, attempt, attempt /\ WillSpawn, FALSE)
    /\ TrackFailed
    /\ UNCHANGED <<kind, phase, now>>
    /\ TrackCache

\* One pass of the health monitor over the server (also force_health_check).
HealthTick ==
    /\ HealthPass
    /\ UNCHANGED <<monitor, sessionVars, toolMapVars>>

\* initialize_servers_for_role for the server: the startup check
\* (is_server_already_running_with_config) records Running for a remote server and
\* the process state otherwise; a server found not running is started through
\* get_server_functions. The health monitor is started last.
Startup ==
    /\ phase = "boot"
    /\ phase' = "up"
    /\ IF kind = "http_remote"
       THEN /\ health' = "Running"
            /\ UNCHANGED <<alive, restart_count, last_restart_time, spawn_log>>
            /\ last_op' = Op("startup", "-", FALSE, FALSE, FALSE)
       ELSE IF alive
            THEN /\ health' = "Running"
                 /\ UNCHANGED <<alive, restart_count, last_restart_time, spawn_log>>
                 /\ last_op' = Op("startup", "-", FALSE, FALSE, FALSE)
            ELSE /\ EnsureServerRunning("Dead")
                 /\ last_op' = Op("startup", "-", TRUE, WillSpawn, FALSE)
    /\ TrackFailed
    /\ UNCHANGED <<kind, now>>
    /\ TrackCache
    /\ monitor' = start_health_monitor(monitor)
    /\ UNCHANGED <<sessionVars, toolMapVars>>

\* execute_tool_call_internal reaches ensure_server_running through
\* get_server_base_url for a local HTTP server; a remote server only yields its URL
\* and a stdin server is written to over its pipe.
DispatchEnsuresRunning(k) == k = "http_local"

\* server::execute_tool_call: the health gate, then execute_tool_call_internal.
Dispatch ==
    /\ phase = "up"
    /\ IF health # "Running"
       THEN /\ UNCHANGED <<alive, health, restart_count, last_restart_time, spawn_log>>
            /\ last_op' = Op("dispatch", "-", FALSE, FALSE, TRUE)
       ELSE IF DispatchEnsuresRunning(kind)
            THEN /\ EnsureServerRunning(health)
                 /\ last_op' = Op("dispatch", "-", TRUE, WillSpawn, FALSE)
            ELSE /\ UNCHANGED <<alive, health, restart_count, last_restart_time,
                                spawn_log>>
                 /\ last_op' = Op("dispatch", "-", FALSE, FALSE, FALSE)
    /\ TrackFailed
    /\ UNCHANGED <<kind, phase, now>>
    /\ TrackCache
    /\ UNCHANGED <<monitor, sessionVars, toolMapVars>>

\* is_server_running_for_cache_check: a remote server counts as running; a server
\* with an entry in the process registry is running when its child has not
\* exited, and is assumed running when the entry's lock is held by another task;
\* a server without an entry is not running.
is_server_running_for_cache_check(k, has_entry, locked, running) ==
    IF k = "http_remote" THEN TRUE
    ELSE IF has_entry THEN (IF locked THEN TRUE ELSE running)
    ELSE FALSE

\* get_server_functions reaches ensure_server_running directly for a stdin
\* server and through get_server_base_url for a local HTTP server.
FetchEnsuresRunning(k) == k \in LocalKinds

\* get_server_functions_cached, what the call returns and leaves in the cache,
\* the variant that keeps the fallback entries.
functions_cached_outcome_stores_fallback(cache, is_running, fetched) ==
    IF cache # "none" THEN [returned |-> cache, cache |-> cache]
    ELSE IF is_running /\ fetched THEN [returned |-> "real", cache |-> "real"]
    ELSE [returned |-> "fallback", cache |-> "fallback"]

\* get_server_functions_cached, what the call returns and leaves in the cache:
\* cached functions are returned as they are. With no entry, the answer of a
\* server found running is stored and returned; when the request fails or the
\* server is found not running, the fallback entries are returned and nothing is
\* stored.
functions_cached_outcome(cache, is_running, fetched) ==
    IF cache # "none" THEN [returned |-> cache, cache |-> cache]
    ELSE IF is_running /\ fetched THEN [returned |-> "real", cache |-> "real"]
    ELSE [returned |-> "fallback", cache |-> "none"]

\* get_server_functions_cached: with no entry in the cache, a server found running
\* is asked through get_server_functions, which starts a stdin or local HTTP
\* server that is down.
GetServerFunctionsCached ==
    /\ phase = "up"
    /\ \E locked \in BOOLEAN, answered \in BOOLEAN :
          LET is_running ==
                  is_server_running_for_cache_check(kind, restart_count > 0, locked, alive)
              asks == function_cache = "none" /\ is_running
              ensures == asks /\ FetchEnsuresRunning(kind)
          IN  /\ IF ensures
                 THEN EnsureServerRunning(health)
                 ELSE UNCHANGED <<alive, health, restart_count, last_restart_time,
                                  spawn_log>>
              /\ LET fetched == answered /\ (alive' \/ kind = "http_remote")
                     outcome == functions_cached_outcome(function_cache, is_running,
                                                         fetched)
                 IN  /\ function_cache' = outcome.cache
                     /\ last_op' = [Op("functions_cached", "-", ensures,
                                       ensures /\ WillSpawn, FALSE)
                                       EXCEPT !.returned = outcome.returned]
    /\ TrackFailed
    /\ UNCHANGED <<kind, phase, now>>
    /\ UNCHANGED <<monitor, sessionVars, toolMapVars>>

\* reset_server_failure_state, the explicit reset: Failed goes back to Dead.
ManualReset ==
    /\ phase = "up"
    /\ health = "Failed"
    /\ health' = "Dead"
    /\ last_op' = Op("reset", "-", FALSE, FALSE, FALSE)
    /\ TrackFailed
    /\ UNCHANGED <<kind, phase, alive, restart_count, last_restart_time, now, spawn_log>>
    /\ TrackCache
    /\ UNCHANGED <<monitor, sessionVars, toolMapVars>>

\* The child process of a stdin or local HTTP server exits.
ProcessDies ==
    /\ kind \in LocalKinds
    /\ alive
    /\ alive' = FALSE
    /\ last_op' = Op("exit", "-", FALSE, FALSE, FALSE)
    /\ UNCHANGED <<kind, phase, health, restart_count, last_restart_time, now,
                   failed_since, spawn_log>>
    /\ TrackCache
    /\ UNCHANGED <<monitor, sessionVars, toolMapVars>>

\* Time passes.
ClockAdvance ==
    /\ now + TimeStep <= MaxTime
    /\ now' = now + TimeStep
    /\ last_op' = Op("clock", "-", FALSE, FALSE, FALSE)
    /\ UNCHANGED <<kind, phase, alive, health, restart_count, last_restart_time,
                   failed_since, spawn_log>>
    /\ TrackCache
    /\ UNCHANGED <<monitor, sessionVars, toolMapVars>>

\* A call of start_health_monitor after startup.
StartHealthMonitor ==
    /\ phase = "up"
    /\ ~monitor.cleaned
    /\ MonitorTasks < MaxMonitorTasks
    /\ monitor' = start_health_monitor(monitor)
    /\ UNCHANGED <<kind, phase, alive, health, restart_count, last_restart_time, now,
                   failed_since, function_cache, spawn_log, last_op>>
    /\ UNCHANGED <<sessionVars, toolMapVars>>

\* A call of stop_health_monitor.
StopHealthMonitor ==
    /\ phase = "up"
    /\ ~monitor.cleaned
    /\ monitor.running
    /\ monitor' = stop_health_monitor(monitor)
    /\ UNCHANGED <<kind, phase, alive, health, restart_count, last_restart_time, now,
                   failed_since, function_cache, spawn_log, last_op>>
    /\ UNCHANGED <<sessionVars, toolMapVars>>

\* cleanup_servers, called by main when the session has ended: the monitor is
\* stopped, then stop_all_servers ends every child process.
CleanupServers ==
    /\ phase = "up"
    /\ ~monitor.cleaned
    /\ monitor' = [stop_health_monitor(monitor) EXCEPT !.cleaned = TRUE]
    /\ alive' = FALSE
    /\ last_op' = Op("cleanup", "-", FALSE, FALSE, FALSE)
    /\ UNCHANGED <<kind, phase, health, restart_count, last_restart_time, now,
                   failed_since, function_cache, spawn_log>>
    /\ UNCHANGED <<sessionVars, toolMapVars>>

\* The monitor task's loop: the interval ticks, and the task leaves the loop when
\* it finds HEALTH_MONITOR_RUNNING cleared, or begins a pass over the servers.
MonitorWakes ==
    /\ monitor.sleeping > 0
    /\ monitor' = IF monitor.running
                  THEN [monitor EXCEPT !.sleeping = @ - 1, !.in_pass = @ + 1]
                  ELSE [monitor EXCEPT !.sleeping = @ - 1]
    /\ UNCHANGED <<kind, phase, alive, health, restart_count, last_restart_time, now,
                   failed_since, function_cache, spawn_log, last_op>>
    /\ UNCHANGED <<sessionVars, toolMapVars>>

\* The monitor task's pass: check_server_health_and_restart_if_dead, which does
\* not read HEALTH_MONITOR_RUNNING; the task then waits for the next tick.
MonitorPass ==
    /\ monitor.in_pass > 0
    /\ HealthPass
    /\ monitor' = [monitor EXCEPT !.in_pass = @ - 1, !.sleeping = @ + 1]
    /\ UNCHANGED <<sessionVars, toolMapVars>>

\* Before startup: no child, no restart history. A remote server has no process and
\* counts as Running; a server with a command is not running yet.
InitSupervisorVars ==
    /\ kind \in ServerKinds
    /\ phase = "boot"
    /\ alive = FALSE
    /\ health = IF kind = "http_remote" THEN "Running" ELSE "Dead"
    /\ restart_count = 0
    /\ last_restart_time = None
    /\ now = 0
    /\ failed_since = None
    /\ spawn_log = <<>>
    /\ function_cache = "none"
    /\ last_op = NoOp
    /\ monitor = NoMonitor

NextSupervisor ==
    \/ Startup
    \/ HealthTick
    \/ Dispatch
    \/ ManualReset
    \/ ProcessDies
    \/ ClockAdvance


(***************************************************************************)
(*                 TOOL MAP: build and static routing                      *)
(***************************************************************************)

\* Tool names and allowed_tools patterns are short words over the letters 1 and 2;
\* 0 stands for '*', so <<1, 0>> is the pattern "a*".
Star == 0
ToolNames == {<<1>>, <<1, 2>>, <<2>>}

\* The allowed_tools lists a server may be configured with.
AllowedToolsChoices == { <<>>, << <<1, Star>> >>, << <<1, 2>> >>, << <<2>>, <<1>> >> }

\* A configured server: what its tools/list answers, whether its functions can be
\* fetched (cached or running), and its allowed_tools. A server whose functions
\* cannot be fetched answers nothing.
ServerConfigs ==
    {c \in [functions : SUBSET ToolNames, available : BOOLEAN,
            tools : AllowedToolsChoices] : c.available \/ c.functions = {}}

StartsWith(name, prefix) ==
    /\ Len(prefix) <= Len(name)
    /\ SubSeq(name, 1, Len(prefix)) = prefix

\* is_tool_allowed_by_patterns
is_tool_allowed_by_patterns(tool_name, allowed_tools) ==
    \/ allowed_tools = <<>>
    \/ \E i \in DOMAIN allowed_tools :
          LET pattern == allowed_tools[i]
          IN  IF pattern[Len(pattern)] = Star
              THEN StartsWith(tool_name, SubSeq(pattern, 1, Len(pattern) - 1))
              ELSE tool_name = pattern

\* filter_tools_by_patterns
filter_tools_by_patterns(functions, allowed_tools) ==
    {f \in functions : is_tool_allowed_by_patterns(f, allowed_tools)}

\* get_fallback_functions: one entry per configured tools string.
get_fallback_functions(server) == {server.tools[i] : i \in DOMAIN server.tools}

\* get_server_functions_cached: the server's functions when they can be fetched,
\* the fallback entries when the server is not running.
get_server_functions_cached(server) ==
    IF server.available THEN server.functions ELSE get_fallback_functions(server)

\* The functions a server contributes to the build.
ServerFunctions(server) ==
    filter_tools_by_patterns(get_server_functions_cached(server), server.tools)

\* Every name a call may carry.
CallNames == ToolNames \cup UNION {{c[i] : i \in DOMAIN c} : c \in AllowedToolsChoices}

\* HashMap::insert: the later server replaces the earlier one.
InsertLastWins(map, name, server) ==
    [n \in DOMAIN map \cup {name} |-> IF n = name THEN server ELSE map[n]]

\* tool_map.entry(name).or_insert_with(|| server): the first server wins.
InsertFirstWins(map, name, server) ==
    IF name \in DOMAIN map THEN map
    ELSE [n \in DOMAIN map \cup {name} |-> IF n = name THEN server ELSE map[n]]

RECURSIVE InsertAll(_, _, _)
InsertAll(map, names, server) ==
    IF names = {} THEN map
    ELSE LET n == CHOOSE x \in names : TRUE
         IN  InsertAll(InsertFirstWins(map, n, server), names \ {n}, server)

\* build_tool_server_map_internal: the servers in configuration order, from index i.
RECURSIVE build_tool_server_map_internal(_, _, _)
build_tool_server_map_internal(cfg, i, map) ==
    IF i > Len(cfg) THEN map
    ELSE build_tool_server_map_internal(cfg, i + 1,
                                        InsertAll(map, ServerFunctions(cfg[i]), i))

(***************************************************************************)
(*                 DISPATCHER: large-output gate                           *)
(***************************************************************************)

\* What the user types at the prompt: a line over these characters, empty when
\* stdin has nothing to read.
AnswerChars == {"y", "Y", "n", " "}
Answers == {<<>>} \cup [1..1 -> AnswerChars] \cup [1..2 -> AnswerChars]

\* str::trim, the leading part.
RECURSIVE TrimStart(_)
TrimStart(line) ==
    IF line # <<>> /\ Head(line) = " " THEN TrimStart(Tail(line)) ELSE line

\* char::to_lowercase over the characters of the prompt's answers.
ToLowercase(c) == IF c = "Y" THEN "y" ELSE c

\* input.trim().to_lowercase().starts_with('y')
AnswersYes(line) ==
    LET t == TrimStart(line) IN t # <<>> /\ ToLowercase(Head(t)) = "y"

NoLargeIn == [tokens |-> 0, threshold |-> 0, interactive |-> TRUE, answer |-> <<>>]

\* handle_large_response: a result over the threshold is returned in full only
\* when the line read from stdin starts with y; otherwise an error result takes
\* its place. The session's mode is not consulted.
handle_large_response(in) ==
    IF in.tokens > in.threshold
    THEN IF AnswersYes(in.answer) THEN "full" ELSE "declined_error"
    ELSE "full"

\* try_execute_tool_call hands a successful result to handle_large_response.
HandleLargeResponse ==
    /\ large_out = "none"
    /\ large_out' = handle_large_response(large_in)
    /\ UNCHANGED <<large_in, extracted, servers, tool_to_server, initialized, routed,
                   roleVars, layerRunVars>>
    /\ UNCHANGED <<init_calls, sessionVars, supervisorVars>>

\* A text is a sequence of characters; a JSON object is a record, a JSON array a
\* sequence, a JSON string a text.
TextChars == {"a", " ", "\n", "\""}
Texts == UNION {[1..k -> TextChars] : k \in 0..MaxText}

JsonNull == [json |-> "null"]
JsonEmptyObject == [json |-> "object"]

\* serde_json::to_string_pretty, for the values it is applied to here: null, the
\* empty object, and a result without content and output (its braces and its
\* isError member).
to_string_pretty(value) ==
    IF value = JsonNull THEN <<"n", "u", "l", "l">>
    ELSE IF value = JsonEmptyObject THEN <<"{", "}">>
    ELSE <<"{", "\n", "isError", "\n", "}">>

TextItem(text) == [type |-> "text", text |-> text]

\* McpToolResult::success
success(tool_name, tool_id, content) ==
    [tool_name |-> tool_name, tool_id |-> tool_id,
     result |-> [content |-> <<TextItem(content)>>, isError |-> FALSE]]

\* McpToolResult::success_with_metadata
success_with_metadata(tool_name, tool_id, content, metadata) ==
    [tool_name |-> tool_name, tool_id |-> tool_id,
     result |-> [content |-> <<TextItem(content)>>, isError |-> FALSE,
                 metadata |-> metadata]]

\* McpToolResult::error
error(tool_name, tool_id, error_message) ==
    [tool_name |-> tool_name, tool_id |-> tool_id,
     result |-> [content |-> <<TextItem(error_message)>>, isError |-> TRUE]]

\* The texts of the items of type text, joined by "\n".
RECURSIVE JoinTextItems(_)
JoinTextItems(content_items) ==
    IF content_items = <<>> THEN <<>>
    ELSE LET item == Head(content_items)
             rest == JoinTextItems(Tail(content_items))
             later == \E i \in 2..Len(content_items) : content_items[i].type = "text"
         IN  IF item.type = "text"
             THEN item.text \o (IF later THEN <<"\n">> ELSE <<>>) \o rest
             ELSE rest

\* The whole result is serialized, whatever it holds.
extract_mcp_content_serialized(result) == to_string_pretty(result)

\* extract_mcp_content: the joined text items of the content array, with the
\* metadata appended when there is one; else the old output field; else the
\* serialized result.
extract_mcp_content(result) ==
    IF "content" \in DOMAIN result
    THEN LET main_content == JoinTextItems(result.content)
         IN  IF "metadata" \in DOMAIN result /\ result.metadata # JsonNull
             THEN main_content \o <<"\n", "\n", "[Metadata: ">>
                      \o to_string_pretty(result.metadata) \o <<"]">>
             ELSE main_content
    ELSE IF "output" \in DOMAIN result
         THEN result.output
         ELSE to_string_pretty(result)

\* Nothing was extracted yet. Otherwise: the constructor that made the result, the
\* text it was given, the McpToolResult, and the text extracted from its result.
NoExtract ==
    [made_by |-> "none", content |-> <<>>,
     tool_result |-> [tool_name |-> <<>>, tool_id |-> <<>>, result |-> [isError |-> FALSE]],
     text |-> <<>>]

ToolIds == {<<>>, <<"a">>}

\* The text is extracted from a tool result for the tool message; the result and
\* the text are kept.
Extract(made_by, content, tool_result) ==
    [made_by |-> made_by, content |-> content, tool_result |-> tool_result,
     text |-> extract_mcp_content(tool_result.result)]

\* A builtin tool answers with McpToolResult::success.
ExtractSuccess ==
    /\ \E tool_name \in ToolNames, tool_id \in ToolIds, content \in Texts :
          extracted' = Extract("success", content, success(tool_name, tool_id, content))
    /\ UNCHANGED <<large_in, large_out, servers, tool_to_server, initialized, routed,
                   roleVars, layerRunVars>>
    /\ UNCHANGED <<init_calls, sessionVars, supervisorVars>>

\* A builtin tool answers with McpToolResult::success_with_metadata.
ExtractSuccessWithMetadata ==
    /\ \E tool_name \in ToolNames, tool_id \in ToolIds, content \in Texts,
          metadata \in {JsonNull, JsonEmptyObject} :
          extracted' = Extract("success_with_metadata", content,
                               success_with_metadata(tool_name, tool_id, content, metadata))
    /\ UNCHANGED <<large_in, large_out, servers, tool_to_server, initialized, routed,
                   roleVars, layerRunVars>>
    /\ UNCHANGED <<init_calls, sessionVars, supervisorVars>>

\* A tool fails and the dispatcher answers with McpToolResult::error.
ExtractError ==
    /\ \E tool_name \in ToolNames, tool_id \in ToolIds, error_message \in Texts :
          extracted' = Extract("error", error_message,
                               error(tool_name, tool_id, error_message))
    /\ UNCHANGED <<large_in, large_out, servers, tool_to_server, initialized, routed,
                   roleVars, layerRunVars>>
    /\ UNCHANGED <<init_calls, sessionVars, supervisorVars>>

\* The result that an external server sent: a content array of text and image
\* items, the old output field, or neither. Each is described by its shape and
\* its items, an item by its type and its text or data.
ItemShapes == {<<"text", <<>>>>, <<"text", <<"a">>>>, <<"image", <<"a">>>>}
ServerResultShapes ==
    {<<"content", items>> : items \in UNION {[1..k -> ItemShapes] : k \in 0..2}}
    \cup {<<"output", <<>>>>, <<"neither", <<>>>>}

ContentItem(shape) ==
    IF shape[1] = "text" THEN TextItem(shape[2]) ELSE [type |-> "image", data |-> shape[2]]

ServerResult(shape) ==
    CASE shape[1] = "content" ->
            [content |-> [i \in DOMAIN shape[2] |-> ContentItem(shape[2][i])],
             isError |-> FALSE]
      [] shape[1] = "output" -> [output |-> <<"a">>]
      [] OTHER -> [isError |-> FALSE]

ExtractServerResult ==
    /\ \E shape \in ServerResultShapes :
          extracted' = Extract("server", <<>>,
                               [tool_name |-> <<>>, tool_id |-> <<>>,
                                result |-> ServerResult(shape)])
    /\ UNCHANGED <<large_in, large_out, servers, tool_to_server, initialized, routed,
                   roleVars, layerRunVars>>
    /\ UNCHANGED <<init_calls, sessionVars, supervisorVars>>

NextEnvelope ==
    \/ ExtractSuccess
    \/ ExtractSuccessWithMetadata
    \/ ExtractError
    \/ ExtractServerResult

\* A successful tool result and the stdin line behind the prompt. In the one-shot
\* run command nobody answers: stdin has nothing to read.
InitDispatchVars ==
    /\ large_in \in {in \in [tokens : 0..MaxTokens, threshold : 0..MaxTokens,
                              interactive : BOOLEAN, answer : Answers] :
                        ~in.interactive => in.answer = <<>>}
    /\ large_out = "none"
    /\ extracted = NoExtract

\* No call of initialize_tool_map has begun: every caller is before its call,
\* nothing was built or stored.
Callers == 1..MaxCallers
NoInitCalls ==
    [pc |-> [c \in Callers |-> "idle"], builds |-> 0, stores |-> 0]

\* A layer before process() is called: no message list yet. allowed_tools and
\* has_server_refs are the layer's mcp section; calls is current_tool_calls_param,
\* each call with its tool_id and tool_name.
NoLayerRun ==
    [pc |-> "idle", messages |-> <<>>, allowed_tools |-> <<>>, has_server_refs |-> FALSE,
     calls |-> <<>>, next_id |-> 0, rounds |-> 0]

ParkedDispatch ==
    /\ large_in = NoLargeIn
    /\ large_out = "none"
    /\ extracted = NoExtract
    /\ init_calls = NoInitCalls
    /\ layer_run = NoLayerRun

NextDispatch == HandleLargeResponse

\* No role section: the servers of the configuration are used as they are.
NoRole == [server_refs |-> <<>>, allowed_tools |-> <<>>, loaded |-> TRUE]

NotRouted ==
    [tool_name |-> <<>>, found |-> FALSE, server |-> 0, layer |-> FALSE, server_refs |-> {}]

\* initialize_tool_map: build once; a second call with the same configuration
\* returns early.
InitializeToolMap ==
    /\ role_mcp.loaded
    /\ IF initialized
       THEN UNCHANGED <<tool_to_server, initialized>>
       ELSE /\ tool_to_server' = build_tool_server_map_internal(servers, 1, <<>>)
            /\ initialized' = TRUE
    /\ UNCHANGED <<servers, routed, roleVars>>
    /\ UNCHANGED <<init_calls, sessionVars, supervisorVars, dispatchVars, layerRunVars>>

\* initialize_tool_map, the check under the read lock: a caller that finds the
\* map initialized with its configuration's hash returns; otherwise it goes on
\* to build. All callers pass the same configuration.
ToolMapCheck ==
    /\ \E c \in Callers :
          /\ init_calls.pc[c] = "idle"
          /\ init_calls' = [init_calls EXCEPT
                                !.pc[c] = IF initialized THEN "returned" ELSE "building"]
    /\ UNCHANGED <<servers, tool_to_server, initialized, routed, roleVars, dispatchVars, layerRunVars>>
    /\ UNCHANGED <<sessionVars, supervisorVars>>

\* initialize_tool_map, the rest: build_tool_server_map_internal is awaited with no
\* lock held, then the result is stored under the write lock.
ToolMapBuildAndStore ==
    /\ \E c \in Callers :
          /\ init_calls.pc[c] = "building"
          /\ init_calls' = [init_calls EXCEPT !.pc[c] = "returned",
                                              !.builds = @ + 1, !.stores = @ + 1]
    /\ tool_to_server' = build_tool_server_map_internal(servers, 1, <<>>)
    /\ initialized' = TRUE
    /\ UNCHANGED <<servers, routed, roleVars, dispatchVars, layerRunVars>>
    /\ UNCHANGED <<sessionVars, supervisorVars>>

\* A caller that has returned calls again.
ToolMapCallAgain ==
    /\ \E c \in Callers :
          /\ init_calls.pc[c] = "returned"
          /\ init_calls' = [init_calls EXCEPT !.pc[c] = "idle"]
    /\ UNCHANGED <<servers, tool_to_server, initialized, routed, roleVars, dispatchVars, layerRunVars>>
    /\ UNCHANGED <<sessionVars, supervisorVars>>

\* Without an initialized map the lookup builds the map on use.
get_server_for_tool_builds_on_use(tool_name) ==
    LET map == IF initialized THEN tool_to_server
               ELSE build_tool_server_map_internal(servers, 1, <<>>)
    IN  IF tool_name \in DOMAIN map THEN map[tool_name] ELSE 0

\* get_server_for_tool: None (0) when the map is not initialized or has no entry
\* for the name.
get_server_for_tool(tool_name) ==
    IF initialized /\ tool_name \in DOMAIN tool_to_server
    THEN tool_to_server[tool_name]
    ELSE 0

\* get_tool_server_name: the name of the server found; a server of the list is
\* named by its position.
get_tool_server_name(tool_name) == get_server_for_tool(tool_name)

\* is_initialized
is_initialized == initialized

\* get_all_tool_names
get_all_tool_names == IF initialized THEN DOMAIN tool_to_server ELSE {}

\* try_execute_tool_call: static routing through the pre-built map only.
RouteToolCall ==
    /\ \E tool_name \in CallNames :
          LET target_server == get_server_for_tool(tool_name)
          IN  routed' = [NotRouted EXCEPT !.tool_name = tool_name,
                                          !.found = target_server # 0,
                                          !.server = target_server]
    /\ UNCHANGED <<servers, tool_to_server, initialized, roleVars>>
    /\ UNCHANGED <<init_calls, sessionVars, supervisorVars, dispatchVars, layerRunVars>>

\* The allowed_tools lists a layer may be configured with; the layer check is an
\* exact match of the name.
LayerAllowedTools == { <<>>, << <<1>> >> }

\* execute_layer_tool_call for a layer whose mcp section names the servers
\* server_refs and the tools allowed_tools: the two layer checks, then the regular
\* tool execution with the session's configuration.
RouteLayerToolCall ==
    /\ \E tool_name \in CallNames, server_refs \in SUBSET (1..Len(servers)),
          allowed_tools \in LayerAllowedTools :
          LET target_server == get_server_for_tool(tool_name)
              called == [NotRouted EXCEPT !.tool_name = tool_name, !.layer = TRUE,
                                          !.server_refs = server_refs]
          IN  IF server_refs = {}
              THEN routed' = called
              ELSE IF allowed_tools # <<>> /\ tool_name \notin SeqToSet(allowed_tools)
                   THEN routed' = called
                   ELSE routed' = [called EXCEPT !.found = target_server # 0,
                                                 !.server = target_server]
    /\ UNCHANGED <<servers, tool_to_server, initialized, roleVars>>
    /\ UNCHANGED <<init_calls, sessionVars, supervisorVars, dispatchVars, layerRunVars>>

\* An allowed_tools entry of a role: "server:pattern" (server is the server's
\* name) or a bare tool name (server 0). Servers are named 1 (S) and 2 (T).
RolePatterns ==
    { [server |-> 1, pat |-> <<1>>], [server |-> 1, pat |-> <<Star>>],
      [server |-> 1, pat |-> <<1, Star>>], [server |-> 2, pat |-> <<2>>],
      [server |-> 0, pat |-> <<1>>] }

\* RoleMcpConfig::expand_patterns_for_server: the role's patterns that apply to the
\* server, as a tools list for it. "server:*" returns the empty list at once, which
\* stands for all tools.
RECURSIVE expand_patterns_for_server(_, _, _)
expand_patterns_for_server(allowed_tools, server_name, expanded_tools) ==
    IF allowed_tools = <<>> THEN expanded_tools
    ELSE LET pattern == Head(allowed_tools)
         IN  IF pattern.server # 0
             THEN IF pattern.server = server_name
                  THEN IF pattern.pat = <<Star>>
                       THEN <<>>
                       ELSE expand_patterns_for_server(Tail(allowed_tools), server_name,
                                                       Append(expanded_tools, pattern.pat))
                  ELSE expand_patterns_for_server(Tail(allowed_tools), server_name,
                                                  expanded_tools)
             ELSE expand_patterns_for_server(Tail(allowed_tools), server_name,
                                             Append(expanded_tools, pattern.pat))

\* RoleMcpConfig::get_enabled_servers: the registry entries the role refers to, in
\* the order of server_refs, each with its tools replaced by the role's patterns
\* for it when the role has an allowed_tools list.
RECURSIVE get_enabled_servers(_, _, _)
get_enabled_servers(role, global_servers, result) ==
    IF role.server_refs = <<>> THEN result
    ELSE LET server_name == Head(role.server_refs)
             rest == [role EXCEPT !.server_refs = Tail(@)]
             found == {i \in DOMAIN global_servers : global_servers[i].name = server_name}
         IN  IF found = {}
             THEN get_enabled_servers(rest, global_servers, result)
             ELSE LET server == global_servers[CHOOSE i \in found : \A j \in found : i <= j]
                      filtered ==
                          IF role.allowed_tools # <<>>
                          THEN [server EXCEPT !.tools =
                                   expand_patterns_for_server(role.allowed_tools,
                                                              server_name, <<>>)]
                          ELSE server
                  IN  get_enabled_servers(rest, global_servers, Append(result, filtered))

\* get_merged_config_for_role: the servers of the role's configuration.
LoadRole ==
    /\ ~role_mcp.loaded
    /\ servers' = get_enabled_servers(role_mcp, registry, <<>>)
    /\ role_mcp' = [role_mcp EXCEPT !.loaded = TRUE]
    /\ UNCHANGED <<tool_to_server, initialized, routed, registry>>
    /\ UNCHANGED <<init_calls, sessionVars, supervisorVars, dispatchVars, layerRunVars>>

\* The registries of the role model: servers S and T, running, with no tools list
\* of their own.
NamedServers(name) ==
    {[name |-> name, functions |-> f, available |-> TRUE, tools |-> <<>>] :
        f \in SUBSET ToolNames}

RoleServerRefs == { <<>>, <<1>>, <<2>>, <<1, 2>>, <<2, 1>> }

SeqsUpTo(S, n) == UNION {[1..k -> S] : k \in 1..n}

InitToolMapVars ==
    /\ servers \in SeqsUpTo(ServerConfigs, MaxServers)
    /\ tool_to_server = <<>>
    /\ initialized = FALSE
    /\ routed = NotRouted
    /\ registry = <<>>
    /\ role_mcp = NoRole
    /\ ParkedDispatch

\* A role section over the registry [S, T]; the merged configuration is not yet
\* made.
InitRoleVars ==
    /\ registry \in {<<s, t>> : s \in NamedServers(1), t \in NamedServers(2)}
    /\ role_mcp \in [server_refs : RoleServerRefs,
                     allowed_tools : SeqsUpTo(RolePatterns, 2) \cup {<<>>},
                     loaded : {FALSE}]
    /\ servers = <<>>
    /\ tool_to_server = <<>>
    /\ initialized = FALSE
    /\ routed = NotRouted
    /\ ParkedDispatch

NextToolMap ==
    \/ InitializeToolMap
    \/ RouteToolCall

\* Tasks calling initialize_tool_map with one configuration, each any number of
\* times.
NextToolMapInit ==
    \/ ToolMapCheck
    \/ ToolMapBuildAndStore
    \/ ToolMapCallAgain

\* Startup for a role: the merged configuration, the tool map, then routing.
NextRoleTools ==
    \/ LoadRole
    \/ InitializeToolMap
    \/ RouteToolCall

\* The tool calls of a layer.
NextLayerDispatch ==
    \/ InitializeToolMap
    \/ RouteLayerToolCall

(***************************************************************************)
(*                          Specifications                                 *)
(***************************************************************************)

\* The variables of the groups a specification does not move.
ParkedSession ==
    /\ messages = <<>>
    /\ pc = "exited"
    /\ ctrl_c_pressed = FALSE
    /\ tool_process_cancelled = FALSE
    /\ operation_cancelled = FALSE
    /\ current_tool_calls = <<>>
    /\ tasks = <<>>
    /\ tool_results = <<>>
    /\ next_tool_id = 0
    /\ turns = 0
    /\ rounds = 0
    /\ user_message_index = 0
    /\ fanout = NoFanout
    /\ enable_layers = FALSE
    /\ layers_write = FALSE
    /\ first_message_processed = FALSE
    /\ has_tools = FALSE
    /\ enable_auto_truncation = FALSE
    /\ supports_caching = FALSE
    /\ current_non_cached_tokens = 0
    /\ current_total_tokens = 0
    /\ hist = NoHist
    /\ cancel_monitors = NoCancelMonitors

\* The runner's turn loop: input, layers, /done, the provider call, Ctrl+C.
NextRunner ==
    \/ CtrlC
    \/ CancelMonitor
    \/ LoopTopCancel
    \/ ReadUserInput
    \/ LayersReturn
    \/ DoneCommand
    \/ SummaryReturns
    \/ ApiReturns

ParkedSupervisor ==
    /\ kind = "http_remote"
    /\ phase = "off"
    /\ alive = FALSE
    /\ health = "Running"
    /\ restart_count = 0
    /\ last_restart_time = None
    /\ now = 0
    /\ failed_since = None
    /\ spawn_log = <<>>
    /\ function_cache = "none"
    /\ last_op = NoOp
    /\ monitor = NoMonitor

ParkedToolMap ==
    /\ servers = <<>>
    /\ tool_to_server = <<>>
    /\ initialized = FALSE
    /\ routed = NotRouted
    /\ registry = <<>>
    /\ role_mcp = NoRole
    /\ ParkedDispatch

InitSession == ToolsConfig /\ InitSessionVars /\ ParkedSupervisor /\ ParkedToolMap
SpecSession == InitSession /\ [][NextSession]_vars

InitRunner == RunnerConfig /\ InitSessionVars /\ ParkedSupervisor /\ ParkedToolMap
SpecRunner == InitRunner /\ [][NextRunner]_vars

\* The runner with its scheduling: the tokio runtime keeps running the monitor
\* task, which polls every 5 ms, and the main loop goes on from its top. Nothing
\* obliges a provider call or the layers to return, or the user to type.
FairRunner ==
    /\ WF_vars(CancelMonitor)
    /\ WF_vars(LoopTopCancel)
SpecRunnerFair == SpecRunner /\ FairRunner

\* A resumed session: the log of an earlier run, loaded with the markers it
\* carried: the system message's and as many more as the budget allows, on any
\* of the messages after it.
ResumedLen == MaxCacheMarkers

ResumedLogs ==
    LET tail == [i \in 1..ResumedLen |->
                    IF i % 2 = 1 THEN UserMessage(0, FALSE) ELSE AssistantMessage(<<>>)]
    IN  {<<[SystemMessage EXCEPT !.cached = TRUE]>>
            \o [i \in 1..ResumedLen |-> [tail[i] EXCEPT !.cached = (i \in marked)]] :
         marked \in {m \in SUBSET (1..ResumedLen) : Cardinality(m) = MaxCacheMarkers - 1}}

\* A session with MCP servers and a model that supports caching.
CacheConfig ==
    /\ has_tools = TRUE
    /\ enable_layers = FALSE
    /\ layers_write = FALSE
    /\ enable_auto_truncation = FALSE
    /\ supports_caching = TRUE

InitCacheSession ==
    /\ messages \in ResumedLogs \cup
                    {add_automatic_cache_markers(<<SystemMessage, AssistantMessage(<<>>)>>,
                                                 TRUE)}
    /\ current_non_cached_tokens = 0
    /\ current_total_tokens = 0
    /\ pc = "idle"
    /\ ctrl_c_pressed = FALSE
    /\ tool_process_cancelled = FALSE
    /\ operation_cancelled = FALSE
    /\ current_tool_calls = <<>>
    /\ tasks = <<>>
    /\ tool_results = <<>>
    /\ next_tool_id = 0
    /\ turns = 0
    /\ rounds = 0
    /\ user_message_index = 0
    /\ fanout = NoFanout
    /\ first_message_processed = (Len(messages) > 2)
    /\ hist = NoHist
    /\ cancel_monitors = NoCancelMonitors

\* The cache markers of a session: turns with tool rounds, and /done.
NextCache ==
    \/ ReadUserInput
    \/ ApiReturns
    \/ TaskSucceeds
    \/ FanoutJoin
    \/ ProcessToolResults
    \/ BeforeFollowUp
    \/ FollowUpReturns
    \/ DoneCommand
    \/ SummaryReturns

\* The tool loop of a session with MCP servers, every tool succeeding and no
\* Ctrl+C, with the follow-up responses observed.
NextToolLoop ==
    \/ ReadUserInput
    \/ ApiReturns
    \/ TaskSucceeds
    \/ FanoutJoin
    \/ ProcessToolResults
    \/ BeforeFollowUp
    \/ FollowUpObserved

SpecToolLoop == InitSession /\ [][NextToolLoop]_vars

InitCache == CacheConfig /\ InitCacheSession /\ ParkedSupervisor /\ ParkedToolMap
SpecCache == InitCache /\ [][NextCache]_vars

InitSupervisor == InitSupervisorVars /\ ParkedSession /\ ParkedToolMap
SpecSupervisor == InitSupervisor /\ [][NextSupervisor]_vars

\* The supervised server and the requests for its function definitions.
NextFunctions ==
    \/ Startup
    \/ HealthTick
    \/ GetServerFunctionsCached
    \/ ProcessDies
    \/ ClockAdvance

SpecFunctions == InitSupervisor /\ [][NextFunctions]_vars

\* The supervised server, the health monitor's tasks and the calls that start and
\* stop the monitor.
NextMonitor ==
    \/ Startup
    \/ StartHealthMonitor
    \/ StopHealthMonitor
    \/ CleanupServers
    \/ MonitorWakes
    \/ MonitorPass
    \/ ProcessDies
    \/ ClockAdvance

SpecMonitor == InitSupervisor /\ [][NextMonitor]_vars

\* The supervisor with its scheduling: the monitor task runs its pass at every
\* interval for as long as the process lives, and time passes.
FairSupervisor == WF_vars(HealthTick) /\ WF_vars(ClockAdvance)
SpecSupervisorFair == SpecSupervisor /\ FairSupervisor

InitToolMap == InitToolMapVars /\ ParkedSession /\ ParkedSupervisor
SpecToolMap == InitToolMap /\ [][NextToolMap]_vars

SpecLayerDispatch == InitToolMap /\ [][NextLayerDispatch]_vars

SpecToolMapInit == InitToolMap /\ [][NextToolMapInit]_vars

InitDispatch ==
    /\ InitDispatchVars
    /\ init_calls = NoInitCalls
    /\ layer_run = NoLayerRun
    /\ servers = <<>>
    /\ tool_to_server = <<>>
    /\ initialized = FALSE
    /\ routed = NotRouted
    /\ registry = <<>>
    /\ role_mcp = NoRole
    /\ ParkedSession
    /\ ParkedSupervisor
SpecDispatch == InitDispatch /\ [][NextDispatch]_vars

\* The names of the tools a layer's model may call.
LayerToolNames == {<<1>>, <<2>>}

\* The tool_calls of one provider response to a layer: names for up to n calls,
\* with fresh ids.
LayerResponses(n) == UNION {[1..k -> LayerToolNames] : k \in 0..n}

LayerCalls(next_id, names) ==
    [k \in DOMAIN names |-> [tool_id |-> next_id + k, tool_name |-> names[k]]]

CallIds(calls) == [k \in DOMAIN calls |-> calls[k].tool_id]

\* ToolExecutionContext::is_tool_allowed, the Layer arm.
is_tool_allowed(allowed_tools, tool_name) ==
    allowed_tools = <<>> \/ tool_name \in SeqToSet(allowed_tools)

\* execute_tools_parallel_unified: the calls that pass the context's filter.
AllowedToolCalls(allowed_tools, calls) ==
    SelectSeq(calls, LAMBDA c : is_tool_allowed(allowed_tools, c.tool_name))

\* GenericLayer::process: create_messages (system prompt and prepared input), then
\* the layer's first provider call. With tool calls and server_refs the recursive
\* tool loop starts; otherwise the output is returned.
LayerProcess ==
    /\ layer_run.pc = "idle"
    /\ \/ layer_run' = [layer_run EXCEPT !.pc = "failed",
                                         !.messages = <<SystemMessage, UserMessage(1, FALSE)>>]
       \/ \E names \in LayerResponses(MaxCalls) :
             layer_run' = [layer_run EXCEPT
                 !.messages = <<SystemMessage, UserMessage(1, FALSE)>>,
                 !.pc = IF layer_run.has_server_refs /\ names # <<>> THEN "loop" ELSE "done",
                 !.calls = IF layer_run.has_server_refs
                           THEN LayerCalls(layer_run.next_id, names) ELSE <<>>,
                 !.next_id = @ + Len(names)]
    /\ UNCHANGED <<sessionVars, supervisorVars>>
    /\ UNCHANGED <<servers, tool_to_server, initialized, routed, roleVars, init_calls,
                   dispatchVars>>

\* One iteration of the loop of process_recursive_tool_calls, up to the follow-up
\* provider call of process_layer_tool_results: the assistant message is pushed
\* with the response's tool_calls, the calls that pass the filter are executed and
\* give one result each, and a tool message is pushed for every result. The
\* operation may be cancelled at each of the three checks.
LayerToolRound ==
    /\ layer_run.pc = "loop"
    /\ \E cancelled \in {"no", "at_start", "after_tools", "before_follow_up"},
          o \in {"ok", "err"} :
          LET calls == layer_run.calls
              pushed == Append(layer_run.messages, AssistantMessage(CallIds(calls)))
              allowed_ids == CallIds(AllowedToolCalls(layer_run.allowed_tools, calls))
              outcome == [id \in SeqToSet(allowed_ids) |-> o]
              results == CollectResults(allowed_ids, outcome, pushed, <<>>).results
              answered == AddToolMessages(pushed, results)
          IN  layer_run' =
                 IF cancelled = "at_start"
                 THEN [layer_run EXCEPT !.pc = "failed", !.calls = <<>>]
                 ELSE IF allowed_ids = <<>>
                 THEN [layer_run EXCEPT !.pc = "done", !.messages = pushed, !.calls = <<>>]
                 ELSE IF cancelled = "after_tools"
                 THEN [layer_run EXCEPT !.pc = "failed", !.messages = pushed,
                                        !.calls = <<>>]
                 ELSE IF cancelled = "before_follow_up"
                 THEN [layer_run EXCEPT !.pc = "done", !.messages = answered,
                                        !.calls = <<>>]
                 ELSE [layer_run EXCEPT !.pc = "follow_up", !.messages = answered,
                                        !.calls = <<>>]
    /\ UNCHANGED <<sessionVars, supervisorVars>>
    /\ UNCHANGED <<servers, tool_to_server, initialized, routed, roleVars, init_calls,
                   dispatchVars>>

\* The follow-up provider call of process_layer_results returns: with tool
\* calls the loop goes on, without them the layer's output is returned; Err ends
\* the layer.
LayerFollowUpReturns ==
    /\ layer_run.pc = "follow_up"
    /\ \/ layer_run' = [layer_run EXCEPT !.pc = "failed"]
       \/ \E names \in (IF layer_run.rounds < MaxRounds
                         THEN LayerResponses(MaxCalls) ELSE {<<>>}) :
             layer_run' = [layer_run EXCEPT
                 !.pc = IF names # <<>> THEN "loop" ELSE "done",
                 !.calls = LayerCalls(layer_run.next_id, names),
                 !.next_id = @ + Len(names),
                 !.rounds = IF names # <<>> THEN @ + 1 ELSE @]
    /\ UNCHANGED <<sessionVars, supervisorVars>>
    /\ UNCHANGED <<servers, tool_to_server, initialized, routed, roleVars, init_calls,
                   dispatchVars>>

NextLayerTools ==
    \/ LayerProcess
    \/ LayerToolRound
    \/ LayerFollowUpReturns

\* A layer with any of the allowed_tools lists, with or without server_refs.
InitLayerTools ==
    /\ ParkedSession
    /\ ParkedSupervisor
    /\ servers = <<>>
    /\ tool_to_server = <<>>
    /\ initialized = FALSE
    /\ routed = NotRouted
    /\ registry = <<>>
    /\ role_mcp = NoRole
    /\ large_in = NoLargeIn
    /\ large_out = "none"
    /\ extracted = NoExtract
    /\ init_calls = NoInitCalls
    /\ layer_run \in {[NoLayerRun EXCEPT !.allowed_tools = a, !.has_server_refs = r] :
                        a \in LayerAllowedTools, r \in BOOLEAN}

SpecLayerTools == InitLayerTools /\ [][NextLayerTools]_vars

InitEnvelope == ParkedSession /\ ParkedSupervisor /\ ParkedToolMap
SpecEnvelope == InitEnvelope /\ [][NextEnvelope]_vars

InitRoleTools == InitRoleVars /\ ParkedSession /\ ParkedSupervisor
SpecRoleTools == InitRoleTools /\ [][NextRoleTools]_vars

(***************************************************************************)
(*                     Properties: session runner                          *)
(***************************************************************************)

\* Tool messages after position i that answer tool call id.
\* C11: once Ctrl+C has cancelled a turn while its tool calls were executing or its
\* results were being processed, the follow-up provider call of that turn is never
\* issued.
C11_NoProviderCallAfterCancel ==
    hist.cancel_pc \in {"executing_tools", "tool_results", "before_follow_up"}
        => pc # "follow_up_api"

\* A turn cancelled after its tool messages were added and before the follow-up
\* call is back at the prompt.
C11_CancelledBeforeFollowUp ==
    pc = "idle" /\ tool_process_cancelled /\ hist.cancel_pc = "before_follow_up"

\* The user messages of the log that carry the input of turn t.
UserMessagesOf(t) ==
    {i \in DOMAIN messages : messages[i].role = "user" /\ messages[i].input = t}

\* C12: when the provider call of a turn fails, the user message appended for that
\* turn is removed and nothing else is: the log is the one the call was issued on
\* (after any context truncation) without that user message.
C12_FailedCallRemovesUserMessage ==
    (pc = "idle" /\ hist.turn_end = "api_error") => messages = hist.kept

\* C13: after Ctrl+C during the provider call, once the runner is back at the
\* prompt the log holds no user message of that turn.
C13_CancelledCallDropsUserMessage ==
    (pc = "idle" /\ ~ctrl_c_pressed /\ hist.turn_end = "api_cancelled")
        => UserMessagesOf(hist.api_turn) = {}

\* C13, as the code has it: after Ctrl+C during the provider call the response is
\* discarded and the log is the one the call was issued on, user message included.
C13_CancelledCallKeepsLog ==
    (pc = "idle" /\ hist.turn_end = "api_cancelled") => messages = hist.at_call

\* A turn cancelled during its provider call is back at the prompt, flag reset.
C13_BackAtPromptAfterCancelledCall ==
    pc = "idle" /\ ~ctrl_c_pressed /\ hist.turn_end = "api_cancelled"

\* C14: after Ctrl+C during the layer pipeline of the first turn, once the runner
\* is back at the prompt the log holds no user message of that turn.
C14_CancelledLayersDropUserMessage ==
    (pc = "idle" /\ ~ctrl_c_pressed /\ hist.turn_end = "layers_cancelled")
        => UserMessagesOf(turns) = {}

C18_SilentLayersReachProvider ==
    (enable_layers /\ ~layers_write) => hist.turn_end # "layers_done"

\* C19: only the first user turn of a session enters the layer pipeline.
C19_OnlyFirstTurnLayered ==
    pc = "processing_layers" => turns = 1

\* C19, as the code has it: between two resets of the flag (session start, /done)
\* at most one turn completes the layer pipeline, and once one has, no later turn
\* enters it; a layer run cancelled by Ctrl+C does not count.
C19_OneLayerRunPerReset ==
    /\ hist.layer_runs_since <= 1
    /\ pc = "processing_layers" => hist.layer_runs_since = 0
    /\ first_message_processed <=> hist.layer_runs_since = 1

\* A later turn of a layered session bypasses the layers.
C19_SecondTurnBypassesLayers ==
    /\ enable_layers /\ first_message_processed
    /\ pc = "calling_api" /\ turns = 2 /\ hist.layer_runs = 1

\* The results of the last fan-out that answer tool call id.
ResultsFor(id) == {k \in DOMAIN tool_results : tool_results[k].tool_id = id}

\* C15: a fan-out that finishes without cancellation returns exactly one result per
\* dispatched call, and each result carries the id the provider gave the call,
\* whatever the call ended with.
C15_OneResultPerCall ==
    (pc = "tool_results" /\ ~fanout.cancelled)
        => /\ Len(tool_results) = Len(current_tool_calls)
           /\ \A id \in SeqToSet(current_tool_calls) : Cardinality(ResultsFor(id)) = 1

\* A fan-out of two calls has joined, one call failed and one task aborted.
C15_JoinedWithFailures ==
    /\ pc = "tool_results" /\ ~fanout.cancelled
    /\ Len(current_tool_calls) = 2
    /\ {tasks[id] : id \in DOMAIN tasks} = {"err", "join_err"}

\* What a failed tools/call on an external server ends the task with.
TransportFailures == {"err", "ok_rpc_error"}

\* C16: every failed tools/call on an external server is handed on as a result
\* whose isError is true.
C16_TransportFailureIsError ==
    (pc = "tool_results" /\ ~fanout.cancelled)
        => \A k \in DOMAIN tool_results :
              tasks[tool_results[k].tool_id] \in TransportFailures
                  => tool_results[k].is_error = "true"

ToolMessagesFor(i, id) ==
    {j \in DOMAIN messages :
        j > i /\ messages[j].role = "tool" /\ messages[j].tool_call_id = id}

\* C1: whenever the session is idle, every tool_use id listed in an assistant
\* message's tool_calls has exactly one tool message later in the log.
C1_IdleToolCallsAnswered ==
    pc = "idle" =>
        \A i \in DOMAIN messages :
            (messages[i].role = "assistant" /\ messages[i].has_tool_calls) =>
                \A id \in SeqToSet(messages[i].tool_calls) :
                    Cardinality(ToolMessagesFor(i, id)) = 1

\* C2: when the fan-out ends by Ctrl+C after some calls completed successfully, the
\* results of those calls are returned and the assistant message still lists them.
C2_CancelKeepsCompleted ==
    (pc = "tool_results" /\ fanout.cancelled) =>
        \A id \in DOMAIN tasks :
            tasks[id] = "ok" =>
                /\ id \in fanout.returned
                /\ id \in SeqToSet(messages[fanout.asst].tool_calls)

SpawnWindowSecs == 5 * 60

C4_TickRespectsCooldown ==
    (/\ last_op.name = "tick"
     /\ last_op.probed = "Dead"
     /\ last_op.elapsed # None
     /\ last_op.elapsed < RestartCooldownSecs)
        => (~last_op.attempted /\ ~last_op.spawned)

\* C4 witness: a tick found a restartable server Dead inside the cooldown, with
\* restart budget left.
C4_TickInCooldown ==
    /\ last_op.name = "tick"
    /\ last_op.probed = "Dead"
    /\ last_op.elapsed # None
    /\ last_op.elapsed < RestartCooldownSecs
    /\ kind \in LocalKinds
    /\ restart_count < MaxRestartAttempts
    /\ ~alive

C7_FailedResetAfterCooldown ==
    (/\ last_op.name = "tick"
     /\ last_op.pre_health = "Failed"
     /\ last_op.failed_for # None
     /\ last_op.failed_for > FailureCooldownSecs)
        => health = "Dead"

\* C8: a remote HTTP server's recorded health is Running in every state, and the
\* dispatcher never refuses a call to it.
C8_RemoteAlwaysRunning ==
    (kind = "http_remote" /\ phase = "up") =>
        (health = "Running" /\ ~last_op.refused)

\* C9: a dispatcher call spawns no server process.
C9_DispatchNeverSpawns ==
    last_op.name = "dispatch" => ~last_op.spawned

(***************************************************************************)
(*                        Properties: tool map                             *)
(***************************************************************************)

\* The servers whose functions, as the build sees them, include the name.
Offering(name) == {i \in DOMAIN servers : name \in ServerFunctions(servers[i])}

Earliest(S) == CHOOSE i \in S : \A j \in S : i <= j

\* C5: once built, the tool map sends every name offered by at least one server to
\* the earliest such server of the list, and the dispatcher routes a call there.
C5_FirstServerWins ==
    initialized =>
        /\ \A name \in CallNames :
              IF Offering(name) = {}
              THEN name \notin DOMAIN tool_to_server
              ELSE /\ name \in DOMAIN tool_to_server
                   /\ tool_to_server[name] = Earliest(Offering(name))
        /\ routed.found => routed.server = Earliest(Offering(routed.tool_name))

\* C5 witness: a call was routed for a name that two servers offer.
C5_SharedNameRouted ==
    /\ initialized
    /\ routed.found
    /\ Cardinality(Offering(routed.tool_name)) >= 2

\* C20: a tool call of a layer is never executed on a server that is not among
\* the layer's server_refs.
C20_LayerCallWithinServerRefs ==
    (routed.layer /\ routed.found) => routed.server \in routed.server_refs

\* The role's allowed_tools is not empty and every entry names server S.
AllEntriesNameS ==
    /\ role_mcp.allowed_tools # <<>>
    /\ \A i \in DOMAIN role_mcp.allowed_tools : role_mcp.allowed_tools[i].server = 1

\* C21: with a non-empty allowed_tools list whose entries all name server S, no
\* tool is offered by, or routable to, another server of the role.
C21_ScopedPatternStaysOnItsServer ==
    (initialized /\ AllEntriesNameS)
        => \A n \in DOMAIN tool_to_server : servers[tool_to_server[n]].name = 1

\* C22: in non-interactive mode a successful result whose estimated size is over
\* the threshold is returned in full.
C22_NonInteractiveReturnsFull ==
    (large_out # "none" /\ ~large_in.interactive /\ large_in.tokens > large_in.threshold)
        => large_out = "full"

C24_DoneLeavesSystemAndSummary ==
    [][(pc = "summarizing" /\ hist'.turn_end = "done_command")
          => /\ hist'.summary_calls = 1
             /\ Len(messages') = 2
             /\ messages'[1] = messages[1] /\ messages'[1].role = "system"
             /\ messages'[2].role = "assistant" /\ messages'[2].cached
             /\ current_non_cached_tokens' = 0
             /\ current_total_tokens' = 0]_vars

\* C24 witness: /done succeeded on a log of more than two messages with tokens
\* counted, and the session is back at the prompt with the reduced log.
C24_ReducedAfterDone ==
    /\ pc = "idle" /\ hist.turn_end = "done_command"
    /\ hist.done_len > 2 /\ hist.done_tokens > 0
    /\ Len(messages) = 2 /\ messages[2].cached
    /\ current_total_tokens = 0

\* C25: stopping a loading animation leaves the operation's cancellation flag
\* as it was, on every path that stops one: the provider call of the turn, the
\* follow-up call after tool results, the layers, and the /done summarization.
C25_TeardownKeepsOperationFlag == hist.teardown.after = hist.teardown.before

\* C26: whenever an operation of a turn is active -- the layers, the provider
\* call, the tool execution, the /done summarization -- and Ctrl+C is pressed,
\* the cancellation flag of that operation is eventually set, unless the
\* operation has ended by itself or the process has exited on a second Ctrl+C.
C26_CtrlCReachesOperationFlag ==
    /\ \A op \in {"processing_layers", "calling_api", "summarizing"} :
          (pc = op /\ ctrl_c_pressed) ~> (operation_cancelled \/ pc # op)
    /\ (pc = "executing_tools" /\ ctrl_c_pressed)
          ~> (tool_process_cancelled \/ pc # "executing_tools")

CooldownCanPass ==
    \/ last_restart_time = None
    \/ \E k \in 0..MaxTime :
          /\ now + k * TimeStep <= MaxTime
          /\ now + k * TimeStep - last_restart_time >= RestartCooldownSecs

C29_CachedLookupNeverSpawns ==
    last_op.name = "functions_cached" => ~last_op.spawned

\* C30: for one configuration the tool map is built at most once, however often
\* and however concurrently initialize_tool_map is called, and the map stored by
\* the first build is never replaced.
C30_ToolMapBuiltOnce == init_calls.builds <= 1 /\ init_calls.stores <= 1

\* C31: while the tool map was never initialized, a call of a tool that a
\* configured server offers is still routed, to a server offering it.
C31_UninitializedMapFallsBack ==
    (~initialized /\ routed.tool_name # <<>> /\ ~routed.layer
        /\ Offering(routed.tool_name) # {})
        => (routed.found /\ routed.server \in Offering(routed.tool_name))

\* C32 as stated: the follow-up response starts another round of tool execution
\* exactly when it has tool calls and its finish_reason is tool_calls or tool_use.
C32_ContinuesOnToolReasonsOnly ==
    hist.follow_up.finish_reason # "-" =>
        (hist.follow_up.continued <=>
            (hist.follow_up.calls > 0
                /\ hist.follow_up.finish_reason \in {"tool_calls", "tool_use"}))

\* C32: the follow-up response starts another round of tool execution exactly
\* when it has tool calls and its finish_reason is none of stop, end_turn and
\* length; with one of these three the tool loop ends.
C32_ContinuesUnlessFinished ==
    hist.follow_up.finish_reason # "-" =>
        (hist.follow_up.continued <=>
            (hist.follow_up.calls > 0
                /\ hist.follow_up.finish_reason \notin {"stop", "end_turn", "length"}))

\* C32 witness: a follow-up response with tool calls and a finish_reason the code
\* does not know started a round, and the tools are executing.
C32_UnknownReasonContinued ==
    /\ pc = "executing_tools"
    /\ hist.follow_up.calls > 0
    /\ hist.follow_up.finish_reason = "unknown"
    /\ hist.follow_up.continued

\* C33: at the top of the main loop with no operation in progress, the arrival of
\* a Ctrl+C and its consumption both leave the message log as it is, and the
\* consumption clears the flag; so any number of cancellations consumed in a
\* row yields the same log.
C33_IdleCancelKeepsLog ==
    [][(pc = "idle" /\ pc' = "idle" /\ ctrl_c_pressed # ctrl_c_pressed')
          => (messages' = messages /\ (ctrl_c_pressed => ~ctrl_c_pressed'))]_vars

\* C33 witness: after a turn that left a user message in the log, two
\* cancellations were consumed in a row at the top of the loop.
C33_TwoIdleCancelsConsumed ==
    /\ pc = "idle"
    /\ ~ctrl_c_pressed
    /\ hist.sigints = 2
    /\ hist.pending = 0
    /\ \E i \in DOMAIN messages : messages[i].role = "user"

C35_SuccessEnvelopeRoundTrip ==
    extracted.made_by = "success" => extracted.text = extracted.content

\* C35 witness: the text of a success envelope was extracted, and the text has a
\* newline and a quote in it.
C35_ExtractedQuotedText ==
    /\ extracted.made_by = "success"
    /\ extracted.content = <<"\n", "\"">>

\* C36: when a layer issues its next provider call, every tool_use of an
\* assistant message of the layer's list has a tool message later in the list.
C36_LayerToolUsesAnswered ==
    layer_run.pc = "follow_up" =>
        \A i \in DOMAIN layer_run.messages :
            layer_run.messages[i].role = "assistant" =>
                \A id \in SeqToSet(layer_run.messages[i].tool_calls) :
                    \E j \in DOMAIN layer_run.messages :
                        /\ j > i
                        /\ layer_run.messages[j].role = "tool"
                        /\ layer_run.messages[j].tool_call_id = id

\* C37: once cleanup_servers has returned, no server process is spawned any more,
\* also by a monitor pass that had begun before the monitor was stopped.
C37_NoSpawnAfterCleanup ==
    [][monitor.cleaned => spawn_log' = spawn_log]_vars

\* C38: at most one health-monitor task exists at any time, whatever the order of
\* the start_health_monitor and stop_health_monitor calls.
C38_AtMostOneMonitorTask == MonitorTasks <= 1

\* C39: the function cache never holds fallback entries: a request that got the
\* fallback entries left the cache without an entry for the server, and a request
\* that got the server's own list left that list in the cache.
C39_FallbackNeverCached ==
    /\ function_cache \in {"none", "real"}
    /\ last_op.name = "functions_cached" =>
          /\ last_op.returned \in {"real", "fallback"}
          /\ last_op.returned = "fallback" => function_cache = "none"
          /\ last_op.returned = "real" => function_cache = "real"

\* C39 witness: a request made while the child of a stdin server was down got the
\* fallback entries, and the cache has no entry.
C39_FallbackReturnedWhileDown ==
    /\ last_op.name = "functions_cached"
    /\ last_op.returned = "fallback"
    /\ kind = "stdin"
    /\ ~alive
    /\ function_cache = "none"

\* C40: when a turn has ended and the runner is back at its prompt, no
\* cancel-monitor task spawned for the turn is still polling.
C40_NoMonitorOutlivesTurn ==
    pc = "idle" => cancel_monitors = NoCancelMonitors

====
